---- MODULE Spec2Model ----
(***************************************************************************)
(* Touch Encoder host library (te-cli): the device session of one Touch    *)
(* Encoder over J1939/CAN or USB HID, its restart state machine and its    *)
(* update state machine, as a state machine over the frames the device     *)
(* sends, the wall clock and the local variables of the running operation. *)
(***************************************************************************)
EXTENDS Integers, Sequences, FiniteSets, TLC

\* ------------------------------------------------------------------ bounds
\* The firmware file takes MaxChunks upload chunks, the last one not full.
MaxChunks == 2
\* How many passes of the update loop may read a later clock and go on.
MaxLate == 1
\* How many frames the background receiver puts on the receive queue.
MaxFrames == 3
\* The last reading of the wall clock while await_res is followed.
MaxTime == 3
\* How many frames recv_msg returns during one scan_for_devices.
MaxClaims == 3
\* How many times send_to is called on the controller application.
MaxSends == 2
\* The screen and variable ids set_screen and set_var are called with: 0..MaxId.
MaxId == 1

\* ------------------------------------------------------- program constants
RESTART_TIMEOUT == 20
UPDATE_TIMEOUT == 720
MTU == 1785
MAX_UPLOAD_SIZE == 1021
\* TouchEncoder.Commands
CMD_ST_AUTH == 1
CMD_RESTART == 68
CMD_RESTART_UTILITY_APP == 69
CMD_LIVE_UPDATE == 85
\* J1939StandardPGN / TePGN
PGN_ACKNOWLEDGEMENT == 59392
PGN_ADDRESS_CLAIMED == 60928
PGN_AUTHENTICATION == 78336
PGN_LIVE_UPDATE == 78592
PGN_GUIDE == 65297
\* hid_reports.ReportIDs
RPT_CS_DATA_LONG == 3
RPT_CS_DATA_SHORT == 4
RPT_COMMAND_ACK == 5
RPT_UPDATE_STATUS == 9
ACK_REPORT_LENGTH == 11
\* ContextIDs.AUTH lives in hid_te_statics, which the repository's sources do
\* not hold; the value only has to agree between the host and the device.
CTX_AUTH == 1
\* Update.StatusType
ST_UPLOAD == 1
ST_UPDATE == 2
ST_COMPONENT == 3
\* Update.ComponentStatus
CS_BUSY == 177
CS_PROGRESS == 48
CS_END == 241
\* Authentication.State
AUTH_COMPLETE == 255
AUTH_CHALLENGE == 0
AUTH_RESPONSE == 1
\* Authentication.Clearance
CLR_INVALID == 255
CLR_SERVICE_TOOL == 1
\* The constant of Authentication.service_tool_secret, 0x63f07b35
AUTH_MAGIC == 1676704565
\* The secret HIDTouchEncoder.authenticate passes, 0x1337
HID_SECRET == 4919
\* The default timeout of J1939CAUniversal.send_to
SEND_TIMEOUT == 10
\* J1939GUIDEInterface.GUIDE_SET
GUIDE_SET == 11
\* GUIDEInterface.Commands
GUIDE_SCREEN == 1
GUIDE_VARIABLE == 2
GUIDE_INT_VARIABLE == 3
GUIDE_STRING_VARIABLE == 4
\* GuideNotifications.KNOB_EVENT
KNOB_EVENT == 16
\* The report id of GuideErrorReport, 0x20
GUIDE_ERROR == 32

\* The session's device: its J1939 source address and NAME at discovery, and
\* the address and NAME of another node of the same bus.
DevAddr == 8 * 16
DevName == 3 + 4
OtherAddr == 8 * 16 + 1
OtherName == 4 + 5
\* USB serial numbers: the session's device and another Touch Encoder.
MySerial == "SN-A"
OtherSerial == "SN-B"

None == [none |-> TRUE]

\* ------------------------------------------------------------------ helpers
Min(a, b) == IF a < b THEN a ELSE b

RECURSIVE LEInt(_)
\* int.from_bytes(bytes, 'little', signed=False)
LEInt(bs) == IF bs = <<>> THEN 0 ELSE Head(bs) + 256 * LEInt(Tail(bs))

\* int.from_bytes(one byte, 'little', signed=True)
Signed8(b) == IF b >= 128 THEN b - 256 ELSE b

\* bytes[a:b] of Python, 0-based and clipped to the length
Slice(bs, a, b) == SubSeq(bs, a + 1, Min(b, Len(bs)))

Zeros(n) == [i \in 1..n |-> 0]

\* ---------------------------------------------------------------- the enums
\* Enum(value) raises ValueError for a value that is no member.
IsAckCode(v) == v \in 0..3
IsAckReportCode(v) == v \in {1, 0, -1, -2}
IsStatusType(v) == v \in {ST_UPLOAD, ST_UPDATE, ST_COMPONENT}
IsUploadError(v) == v \in 0..4
IsUpdateStatus(v) == v \in -2..4
IsComponentType(v) == v \in -1..3
IsComponentStatus(v) == v \in {-1, CS_BUSY, CS_PROGRESS, CS_END}
IsAuthState(v) == v \in {AUTH_COMPLETE, AUTH_CHALLENGE, AUTH_RESPONSE}

\* AckCode (CAN) and AckReportCode (HID)
ACK_OK == 0
ACK_NACK == 1
ACK_ACCESS_DENIED == 2
ACK_CANT_RESPOND == 3
HIDACK_OK == 1
HIDACK_ACC_DENIED == -2

\* Update.Status
US_FAILURE == -2
US_ERROR == -1
US_ONGOING == 0
US_SUCCESS == 1
US_SUCCESS_RESTART == 2
US_SUCCESS_UPTODATE == 3
US_TIMEOUT == 4
\* Update.UploadError.OK
UE_OK == 0
\* Update.ComponentType
CT_BOOTLOADER == 1
CT_FIRMWARE == 2
CT_PROJECT == 3

\* Update.State.from_component_type with FIRMWARE reported as UPDATING
from_component_type_swapped(comp_type) ==
    CASE comp_type = CT_BOOTLOADER -> "UPDATING_BOOTLOADER"
      [] comp_type = CT_PROJECT -> "UPDATING_PROJECT"
      [] OTHER -> "UPDATING"

\* Update.State.from_component_type
from_component_type(comp_type) ==
    CASE comp_type = CT_BOOTLOADER -> "UPDATING_BOOTLOADER"
      [] comp_type = CT_FIRMWARE -> "UPDATING_FIRMWARE"
      [] comp_type = CT_PROJECT -> "UPDATING_PROJECT"
      [] OTHER -> "UPDATING"

\* ---------------------------------------------------------------- the frames
\* A frame of the receive FIFO.  CAN: Message(address, data, timestamp) with
\* pgn = address[2] and sa = address[3].  HID: BaseReport(raw_report,
\* timestamp); data is raw_report, pgn and sa are 0.
Frame(pgn, sa, data) == [pgn |-> pgn, sa |-> sa, data |-> data]

\* ---- J1939 parsers (j1939_messages.py); TRUE iff the constructor returns
SourceAddressMsg(f, source_address) == f.sa = source_address

AddressClaimMsg(f) == f.pgn = PGN_ADDRESS_CLAIMED

AckMsg(f, source_address) ==
    /\ SourceAddressMsg(f, source_address)
    /\ f.pgn = PGN_ACKNOWLEDGEMENT
    /\ Len(f.data) = 8
    /\ IsAckCode(f.data[1])

RestartAckMsg(f, source_address) ==
    /\ AckMsg(f, source_address)
    /\ f.data[2] = CMD_RESTART

CanUpdateAckMsg(f, source_address) ==
    /\ AckMsg(f, source_address)
    /\ f.data[2] = CMD_LIVE_UPDATE

CanUpdateStatusMsg(f, source_address, session_pgn) ==
    /\ SourceAddressMsg(f, source_address)
    /\ f.pgn = session_pgn
    /\ Len(f.data) >= 1
    /\ IsStatusType(f.data[1])
    /\ CASE f.data[1] = ST_UPLOAD -> Len(f.data) = 2
         [] f.data[1] = ST_UPDATE -> Len(f.data) >= 2
         [] OTHER -> Len(f.data) >= 7
    /\ IsUploadError(LEInt(Slice(f.data, 1, 2)))
    /\ IsUpdateStatus(Signed8(LEInt(Slice(f.data, 1, 2))))

AuthMsg(f, source_address) ==
    /\ SourceAddressMsg(f, source_address)
    /\ f.pgn = PGN_AUTHENTICATION
    /\ Len(f.data) >= 1
    /\ IsAuthState(f.data[1])

\* ---- HID parsers (hid_reports.py); TRUE iff the constructor returns
BaseReport(f) == Len(f.data) # 0

AckReport(f) ==
    /\ BaseReport(f)
    /\ Len(f.data) >= ACK_REPORT_LENGTH
    /\ IsAckReportCode(Signed8(LEInt(Slice(f.data, 2, 3))))
    /\ f.data[1] = RPT_COMMAND_ACK

HidUpdateAckMsg(f) ==
    /\ AckReport(f)
    /\ f.data[2] = CMD_LIVE_UPDATE

HidUpdateStatusMsg(f) ==
    /\ BaseReport(f)
    /\ Len(f.data) >= 2
    /\ IsStatusType(f.data[2])
    /\ f.data[1] = RPT_UPDATE_STATUS
    /\ IF f.data[2] = ST_COMPONENT THEN Len(f.data) >= 8 ELSE Len(f.data) >= 3
    /\ IsUploadError(LEInt(Slice(f.data, 2, 3)))
    /\ IsUpdateStatus(Signed8(LEInt(Slice(f.data, 2, 3))))

ContextSensitiveReport(f) ==
    /\ BaseReport(f)
    /\ Len(f.data) >= 2
    /\ f.data[1] \in {RPT_CS_DATA_SHORT, RPT_CS_DATA_LONG}

AuthReport(f) ==
    /\ ContextSensitiveReport(f)
    /\ f.data[2] = CTX_AUTH
    /\ Len(f.data) >= 4
    /\ IsAuthState(f.data[4])

\* ---- GUIDE parsers (j1939_guide.py, hid_guide.py)
\* The class guide_response(pgn, command, screen_id, var_id) returns; an id
\* of None or 0 is false and the class does not look at that id.
guide_response(f, source_address, pgn, command, sid, vid) ==
    /\ SourceAddressMsg(f, source_address)
    /\ f.pgn = pgn
    /\ Len(f.data) >= 2
    /\ f.data[1] = command
    /\ ~(sid # 0 /\ f.data[2] # sid)
    /\ ~(vid # 0 /\ f.data[3] # vid)

\* ScreenID(raw_report[1]) of a report of two bytes or more; no report id is
\* looked at.
ScreenReport(f) == BaseReport(f) /\ Len(f.data) >= 2

\* VariableID(raw_report[2]) of a report of three bytes or more.
VariableReport(f) == ScreenReport(f) /\ Len(f.data) >= 3

GuideErrorReport(f) ==
    /\ BaseReport(f)
    /\ f.data[1] = GUIDE_ERROR
    /\ Len(f.data) >= 2

\* ------------------------------------------------ what the device may send
CanAck(code, cmd) == Frame(PGN_ACKNOWLEDGEMENT, DevAddr, <<code, cmd>> \o Zeros(6))
CanStatus(data) == Frame(PGN_LIVE_UPDATE, DevAddr, data)
CanComponent(type, status, progress) ==
    CanStatus(<<ST_COMPONENT, type, status, progress, 0, 0, 0>>)
CanClaim(sa, name) == Frame(PGN_ADDRESS_CLAIMED, sa, <<name>> \o Zeros(7))
CanAuth(state) == Frame(PGN_AUTHENTICATION, DevAddr, <<state, 5>> \o Zeros(6))

HidAck(cmd, code) == Frame(0, 0, <<RPT_COMMAND_ACK, cmd, code>> \o Zeros(8))
HidStatus(data) == Frame(0, 0, <<RPT_UPDATE_STATUS>> \o data)
HidComponent(type, status, progress) ==
    HidStatus(<<ST_COMPONENT, type, status, progress, 0, 0, 0>>)
HidAuth(state) ==
    Frame(0, 0, <<RPT_CS_DATA_SHORT, CTX_AUTH, 5, state, 5, 0, 0, 0>>)

\* Bytes of an UPDATE status frame: ONGOING, SUCCESS, SUCCESS_RESTART,
\* SUCCESS_UPTODATE, and ERROR (-1) and FAILURE (-2) as signed bytes.
UpdateStatusBytes == {0, 1, 2, 3, 4, 255, 254}
Component(tr, type, status, progress) ==
    IF tr = "CAN" THEN CanComponent(type, status, progress)
    ELSE HidComponent(type, status, progress)
ComponentFrames(tr) ==
    {Component(tr, ty, CS_PROGRESS, pr) :
        ty \in {CT_BOOTLOADER, CT_FIRMWARE, CT_PROJECT}, pr \in {0, 100}}
        \cup {Component(tr, CT_FIRMWARE, CS_BUSY, 0)}

CanFrames ==
    {CanAck(code, CMD_LIVE_UPDATE) : code \in 0..3}
        \cup {CanAck(code, cmd) : code \in {ACK_OK, ACK_NACK, ACK_ACCESS_DENIED},
                                  cmd \in {CMD_RESTART, CMD_RESTART_UTILITY_APP}}
        \cup {CanStatus(<<ST_UPLOAD, e>>) : e \in {0, 4}}
        \cup {CanStatus(<<ST_UPDATE, b>>) : b \in UpdateStatusBytes}
        \cup ComponentFrames("CAN")
        \cup {CanClaim(DevAddr, DevName), CanClaim(OtherAddr, OtherName)}
        \cup {CanAuth(st) : st \in {AUTH_CHALLENGE, AUTH_RESPONSE, AUTH_COMPLETE}}
        \cup {Frame(PGN_GUIDE, DevAddr, <<1, 7>> \o Zeros(6))}

HidFrames ==
    {HidAck(CMD_LIVE_UPDATE, code) : code \in {1, 0, 2, 254}}
        \cup {HidAck(cmd, code) : cmd \in {CMD_RESTART, CMD_RESTART_UTILITY_APP},
                                  code \in {1, 255, 254}}
        \cup {HidStatus(<<ST_UPLOAD, e>>) : e \in {0, 4}}
        \cup {HidStatus(<<ST_UPDATE, b>>) : b \in UpdateStatusBytes}
        \cup ComponentFrames("HID")
        \cup {HidAuth(st) : st \in {AUTH_CHALLENGE, AUTH_RESPONSE, AUTH_COMPLETE}}
        \cup {Frame(0, 0, <<1, 7>>)}

FramesOf(tr) == IF tr = "CAN" THEN CanFrames ELSE HidFrames

\* The layout of the device's frames, whatever the parsers make of them.
\* The device's ack of LIVE_UPDATE, and the status byte it carries.
IsLiveUpdateAck(tr, f) ==
    IF tr = "CAN"
    THEN f.pgn = PGN_ACKNOWLEDGEMENT /\ f.sa = DevAddr /\ Len(f.data) = 8
         /\ f.data[2] = CMD_LIVE_UPDATE
    ELSE Len(f.data) >= ACK_REPORT_LENGTH /\ f.data[1] = RPT_COMMAND_ACK
         /\ f.data[2] = CMD_LIVE_UPDATE
AckStatusByte(tr, f) == IF tr = "CAN" THEN f.data[1] ELSE f.data[3]
\* The status with which the device accepts the update.
AcceptStatus(tr) == IF tr = "CAN" THEN 0 ELSE 1

\* The device's update status frame of one status type, and its bytes.
IsStatusFrame(tr, f, type) ==
    IF tr = "CAN"
    THEN f.pgn = PGN_LIVE_UPDATE /\ f.sa = DevAddr /\ Len(f.data) >= 2
         /\ f.data[1] = type
    ELSE Len(f.data) >= 3 /\ f.data[1] = RPT_UPDATE_STATUS /\ f.data[2] = type
StatusByte(tr, f, i) == IF tr = "CAN" THEN f.data[i + 1] ELSE f.data[i + 2]

\* ----------------------------------------------------------------- the state
VARIABLES
    transport,        \* "CAN" (J1939TouchEncoder) or "HID" (HIDTouchEncoder)
    clock,            \* time.time()
    address, name,    \* J1939TouchEncoder.address, .name
    hid_connected,    \* the HID endpoints are open and the receiver runs
    file_ext, file_size,   \* the package given to update
    pc,               \* where the running operation stands
    op,               \* the operation the caller invoked
    to_utility, wait, authenticate,   \* the arguments of the running restart
    update_state, update_status, file_stream, file_pos, upload_progress,
    time_now, task_timeout, update_timeout,   \* the locals of update
    timeout_end, timestamp,    \* the locals of the running await_res
    hp_devs,          \* ctx.devs of wait_hotplug_event
    cb_seen,          \* the states progress_cb was called with
    sent,             \* the commands sent to the device, in order
    ret,              \* what the caller's operation returned
    restart_status,   \* what restart returned
    auth_status,      \* what authenticate returned
    obs               \* what the device was seen to do (history)

\* The receive path of one session (J1939CALinux / J1939CAUniversal /
\* HIDInterface) and the call of await_res that is followed on it.
VARIABLES
    recv_queue,       \* _recv_queue: the frames put and not yet got, in order
    enqueued,         \* every frame the receiver has put, in order (history)
    delivered,        \* every frame recv_msg / recv_rpt returned (history)
    expected_res,     \* the parsers given to await_res
    res               \* msg / res of await_res, and what it returned

awaitVars == <<recv_queue, enqueued, delivered, expected_res, res>>

\* The challenge and the response of one authenticate.
VARIABLES
    clearance,        \* the clearance authenticate is called with
    ca_address,       \* self.ca.address, the source address of the host's CA
    challenge,        \* the four challenge bytes of the device's frame
    response_sent     \* what authenticate sent in answer, <<>> before

secretVars == <<clearance, ca_address, challenge, response_sent>>

\* One scan_for_devices on a controller application.
VARIABLES
    backend,          \* "linux" (J1939CALinux) or "universal" (J1939CAUniversal)
    messages,         \* the list scan_for_devices builds and returns
    addresses,        \* the set of msg.address seen (J1939CAUniversal only)
    received          \* the frames recv_msg returned to the scan (history)

scanVars == <<backend, messages, addresses, received>>

\* J1939CAUniversal.send_to and the job thread of the J1939 library.
VARIABLES
    multi_packet_msg_sent,   \* the threading.Event of CustomJ1939
    snd_buffer,       \* _snd_buffer of the library: destination -> transmission
    call,             \* the running send_to: its number, destination, length
    calls,            \* how many send_to were called
    send_ret,         \* what each send_to returned, by its number
    completed         \* the calls whose transmission completed (history)

sendVars == <<multi_packet_msg_sent, snd_buffer, call, calls, send_ret, completed>>

\* One set_screen or set_var of the GUIDE interface.
VARIABLES
    guide_op,         \* "set_screen" or "set_var", "-" before the call
    screen_id,        \* the screen id the operation is called with
    var_id,           \* the variable id set_var is called with
    guide_cmd,        \* the command the operation sent
    guide_ret         \* the Status the operation returned

guideVars == <<guide_op, screen_id, var_id, guide_cmd, guide_ret>>

\* The background receiver of a session, its transport and disconnect.
VARIABLES
    recv_thread,        \* where _recv_rpt / _recv_msg is: "test" of its loop,
                        \* "read", or "exited"
    recv_thread_state,  \* _recv_thread_state (HID), state (CAN): "RUNNING"
                        \* or "STOPPED" (READY and CLOSE on CAN)
    io_error,           \* the transport fails every read from now on
    endpoints,          \* "open" or "closed": the hidapi devices, the socket
    disc_pc,            \* disconnect: "-", "join", "close" or "returned"
    io_ops,             \* the operations that returned after the I/O error
    io_rets             \* what they returned (history)

threadVars == <<recv_thread, recv_thread_state, io_error, endpoints, disc_pc,
                io_ops, io_rets>>

\* One J1939Name and what its conversions made of it.
VARIABLES
    nm                \* the NAME value v, its bytes, the value read back from
                      \* them, its nine components, the value built from them

nameVars == <<nm>>

\* The frames J1939TouchEncoder.send_command handed to send_to (history).
VARIABLES
    cmd_sent

commandVars == <<cmd_sent>>

\* J1939GUIDEInterface.response_pgn
VARIABLES
    response_pgn

pgnVars == <<response_pgn>>

\* The CAN sessions of one bus, each with its own controller application:
\* per session its position in restart, address, name, FIFO and returned
\* status, and what its device is doing.
VARIABLES
    sessions

busVars == <<sessions>>

\* The variables the update and restart machine never touches.
otherVars == <<awaitVars, secretVars, scanVars, sendVars, guideVars,
               threadVars, nameVars,
    commandVars, pgnVars, busVars>>
\* The variables await_res does not use, beside those of the machine, and
\* the same for authenticate's response and for the scan.
awaitOthers == <<secretVars, scanVars, sendVars, guideVars, threadVars, nameVars,
    commandVars, pgnVars, busVars>>
secretOthers == <<awaitVars, scanVars, sendVars, guideVars, threadVars, nameVars,
    commandVars, pgnVars, busVars>>
scanOthers == <<awaitVars, secretVars, sendVars, guideVars, threadVars, nameVars,
    commandVars, pgnVars, busVars>>
sendOthers == <<awaitVars, secretVars, scanVars, guideVars, threadVars, nameVars,
    commandVars, pgnVars, busVars>>
guideOthers == <<secretVars, scanVars, sendVars, threadVars, nameVars,
    commandVars, pgnVars, busVars>>
threadOthers == <<secretVars, scanVars, sendVars, guideVars, nameVars,
    commandVars, pgnVars, busVars>>

\* The variables of the update and restart machine.
machineVars == <<transport, clock, address, name, hid_connected, file_ext,
                 file_size, pc, op, to_utility, wait, authenticate,
                 update_state, update_status, file_stream, file_pos,
                 upload_progress, time_now, task_timeout, update_timeout,
                 timeout_end, timestamp, hp_devs, cb_seen, sent, ret,
                 restart_status, auth_status, obs>>

vars == <<machineVars, otherVars>>

sessionVars == <<transport, file_ext, file_size>>
updateVars == <<update_state, update_status, file_stream, file_pos,
                upload_progress, time_now, task_timeout, update_timeout>>
restartArgs == <<to_utility, wait, authenticate>>

NoStatus == "-"

\* Update.Status, by name
UpdateStatusName(v) ==
    CASE v = US_FAILURE -> "FAILURE"
      [] v = US_ERROR -> "ERROR"
      [] v = US_ONGOING -> "ONGOING"
      [] v = US_SUCCESS -> "SUCCESS"
      [] v = US_SUCCESS_RESTART -> "SUCCESS_RESTART"
      [] v = US_SUCCESS_UPTODATE -> "SUCCESS_UPTODATE"
      [] OTHER -> "TIMEOUT"

\* Update.ComponentType.from_filename(filename).value
from_filename(ext) ==
    CASE ext = ".zip" -> CT_PROJECT
      [] ext = ".tepkg" -> 0
      [] OTHER -> -1

ChunkSize(tr) == IF tr = "CAN" THEN MTU ELSE MAX_UPLOAD_SIZE

FileSizes(tr) ==
    {(MaxChunks - 1) * ChunkSize(tr) + 1}

\* The history the claims are stated over.
\*   script, script0: how far the device has followed the happy path with and
\*       without an UPLOAD status frame after the chunks (-1: it left it)
\*   ack_status: the status byte of the last LIVE_UPDATE ack received in time
\*   upd_byte: the status of the last UPDATE status frame received in UPDATING
\*   loop_exit: how update left its loop; late: the passes of the loop that
\*       read a later clock than the pass before and went on
\*   ack: the restart ack await_res returned; dev_ack: the device's ack of
\*       the restart command that was sent, once await_res has read it
\*   io_after_ack: transport I/O that restart did after the OK ack
\*   claim: the address claim restart received; wait_from: when it began to
\*       wait for the reboot
\*   auth1, auth2: the state byte of the device's authentication frame that
\*       await_res returned to authenticate, after ST_AUTH and after the
\*       response
\*   completed: the completed value of the last progress_cb call of the
\*       upload; cb_order: no such call passed less than the call before it
\*   accepted: update has read an ack of LIVE_UPDATE with the accept status
\*   short: the transport reported fewer bytes than a chunk it was given
\*   queued: the frames the receiver had put when restart sent its command
\*   pgn_before: response_pgn when set_response_pgn was called
NoByte == 0 - 1
Obs0 == [script |-> 0, script0 |-> 0, ack_status |-> NoByte, upd_byte |-> NoByte,
         loop_exit |-> "-", late |-> 0, ack |-> "-", dev_ack |-> "-",
         io_after_ack |-> FALSE, claim |-> None, wait_from |-> -1,
         my_arrival |-> FALSE, auth1 |-> NoByte, auth2 |-> NoByte,
         completed |-> NoByte, cb_order |-> TRUE, accepted |-> FALSE,
         short |-> FALSE, queued |-> 0, pgn_before |-> NoByte,
         orphans |-> 0, reopened |-> 0]

\* Nothing received, no await_res running.
AwaitIdle ==
    /\ recv_queue = <<>> /\ enqueued = <<>> /\ delivered = <<>>
    /\ expected_res = <<>> /\ res = None

\* No authenticate followed.
SecretIdle ==
    /\ clearance = 0 /\ ca_address = 0 /\ challenge = <<>>
    /\ response_sent = <<>>

\* No scan followed.
ScanIdle ==
    /\ backend = "-" /\ messages = <<>> /\ addresses = {} /\ received = <<>>

\* No send_to followed.
SendIdle ==
    /\ multi_packet_msg_sent = FALSE /\ snd_buffer = <<>> /\ call = None
    /\ calls = 0 /\ send_ret = <<>> /\ completed = {}

\* No GUIDE operation followed.
GuideIdle ==
    /\ guide_op = "-" /\ screen_id = 0 /\ var_id = 0 /\ guide_cmd = <<>>
    /\ guide_ret = NoStatus

\* No NAME followed.
NameIdle == nm = None

\* No command followed.
CommandIdle == cmd_sent = <<>>

\* J1939GUIDEInterface.__init__: response_pgn = TePGN.GUIDE.value
PgnIdle == response_pgn = PGN_GUIDE

\* No bus of several sessions followed.
BusIdle == sessions = <<>>

\* The receiver runs, nothing has failed, disconnect was not called.
ThreadIdle ==
    /\ recv_thread = "test" /\ recv_thread_state = "RUNNING"
    /\ io_error = FALSE /\ endpoints = "open" /\ disc_pc = "-"
    /\ io_ops = 0 /\ io_rets = {}

Init ==
    /\ AwaitIdle /\ SecretIdle /\ ScanIdle /\ SendIdle /\ GuideIdle /\ ThreadIdle
    /\ NameIdle /\ CommandIdle /\ PgnIdle /\ BusIdle
    /\ transport \in {"CAN", "HID"}
    /\ clock = 0
    /\ address = DevAddr
    /\ name = DevName
    /\ hid_connected = TRUE
    /\ file_ext \in {".zip", ".bin"}
    /\ file_size \in FileSizes(transport)
    /\ pc = "idle"
    /\ op = "-"
    /\ to_utility = FALSE /\ wait = FALSE /\ authenticate = FALSE
    /\ update_state = "UPDATE_REQUEST"
    /\ update_status = US_ERROR
    /\ file_stream = FALSE
    /\ file_pos = 0
    /\ upload_progress = 0
    /\ time_now = 0 /\ task_timeout = 0 /\ update_timeout = 0
    /\ timeout_end = 0 /\ timestamp = -1
    /\ hp_devs = <<>>
    /\ cb_seen = {}
    /\ sent = <<>>
    /\ ret = NoStatus
    /\ restart_status = NoStatus
    /\ auth_status = NoStatus
    /\ obs = Obs0

\* -------------------------------------------------------------- the update
\* The locals of update as one record, with what one pass of the loop adds:
\* cbs, the states progress_cb was called with; completed, the completed
\* value it was called with together with total = file_size, NoByte if it
\* was not; sends, the commands sent;
\* exit, how the pass ended ("next": the end of the body or continue,
\* "break", "return": the return inside the loop, "raise": an exception
\* that no handler of update catches).
Locals ==
    [state |-> update_state, status |-> update_status, stream |-> file_stream,
     pos |-> file_pos, progress |-> upload_progress, task |-> task_timeout,
     cbs |-> {}, completed |-> NoByte, sends |-> <<>>, exit |-> "next"]

\* The progress counts the size of the last chunk only.
add_last_chunk(progress, sz) == sz
\* upload_progress += sz (CAN), upload_progress += len(payload) (HID)
add_progress(progress, sz) == progress + sz

\* The transport took the whole chunk, whatever it reports.
never_short(sz, len) == FALSE
\* "sz != len(payload)" (CAN), "sent != len(report_to_send)" (HID)
short(sz, len) == sz # len
\* What send_to / send_update_payload reports for a chunk of len bytes.
Reported(sendOK, len) == IF sendOK THEN len ELSE 0

\* J1939TouchEncoder.update, lines 255-273: the next chunk of the file
CanUpload(u, t, sendOK) ==
    LET payload == Min(MTU, file_size - u.pos)
    IN  IF ~(u.state = "FILE_UPLOAD" /\ u.stream) THEN u
        ELSE IF payload # 0
        THEN IF short(Reported(sendOK, payload), payload)
             THEN [u EXCEPT !.pos = @ + payload, !.state = "UPLOAD_ERROR",
                            !.exit = "break"]
             ELSE [u EXCEPT !.pos = @ + payload,
                            !.progress = add_progress(@, payload),
                            !.completed = add_progress(u.progress, payload),
                            !.cbs = @ \cup {u.state}]
        ELSE [u EXCEPT !.stream = FALSE, !.task = t + 60]

\* The UPDATING case of both transports, on a parsed status message with
\* status type ty, the byte b after it and the component status byte cs.
\* ComponentStatus(cs) and ComponentType(b) raise ValueError outside the try.
Updating(u, t, ty, b, cs) ==
    IF ty = ST_COMPONENT
    THEN IF ~IsComponentStatus(cs) THEN [u EXCEPT !.task = t + 60, !.exit = "raise"]
         ELSE IF cs # CS_PROGRESS THEN [u EXCEPT !.task = t + 60]
         ELSE IF ~IsComponentType(b) THEN [u EXCEPT !.task = t + 60, !.exit = "raise"]
         ELSE [u EXCEPT !.task = t + 60, !.cbs = @ \cup {from_component_type(b)}]
    ELSE IF ty = ST_UPDATE
    THEN IF Signed8(b) # US_ONGOING
         THEN [u EXCEPT !.status = Signed8(b),
                        !.state = IF Signed8(b) >= US_SUCCESS THEN "SUCCESS"
                                  ELSE "ERROR",
                        !.exit = "break"]
         ELSE [u EXCEPT !.status = Signed8(b)]
    ELSE u

\* J1939TouchEncoder.update, lines 275-355: the match on update_state
CanMatch(u, m, t) ==
    CASE u.state = "UPDATE_REQUEST" ->
           IF from_filename(file_ext) = -1
           THEN [u EXCEPT !.cbs = @ \cup {"UPDATE_REQUEST", "UPDATE_REJECTED"},
                          !.exit = "return"]
           ELSE [u EXCEPT !.cbs = @ \cup {"UPDATE_REQUEST"},
                          !.sends = Append(@, "LIVE_UPDATE"),
                          !.state = "UPDATE_CONFIRMATION", !.task = t + 1]
      [] u.state = "UPDATE_CONFIRMATION" ->
           LET v == [u EXCEPT !.cbs = @ \cup {"UPDATE_CONFIRMATION"}]
               next == CASE m.data[1] = 0 -> "FILE_UPLOAD"
                         [] m.data[1] = 2 -> "UPDATE_REJECTED"
                         [] m.data[1] = 3 -> "DEVICE_BUSY"
                         [] OTHER -> "ERROR"
           IN  IF m = None \/ ~CanUpdateAckMsg(m, address) THEN v
               ELSE [v EXCEPT !.task = update_timeout,
                              !.stream = IF next = "FILE_UPLOAD" THEN TRUE ELSE @,
                              !.progress = IF next = "FILE_UPLOAD" THEN 0 ELSE @,
                              !.completed = IF next = "FILE_UPLOAD" THEN 0 ELSE @,
                              !.pos = IF next = "FILE_UPLOAD" THEN 0 ELSE @,
                              !.state = next,
                              !.cbs = @ \cup {next}]
      [] u.state = "FILE_UPLOAD" ->
           IF m = None \/ ~CanUpdateStatusMsg(m, address, PGN_LIVE_UPDATE) THEN u
           ELSE IF m.data[2] # UE_OK
           THEN [u EXCEPT !.task = update_timeout, !.state = "UPLOAD_ERROR",
                          !.exit = "break"]
           ELSE [u EXCEPT !.state = "UPDATING", !.task = t + 10]
      [] u.state = "UPDATING" ->
           IF m = None \/ ~CanUpdateStatusMsg(m, address, PGN_LIVE_UPDATE) THEN u
           ELSE Updating(u, t, m.data[1], m.data[2],
                         IF Len(m.data) >= 3 THEN m.data[3] ELSE -1)
      [] OTHER -> [u EXCEPT !.exit = "break"]

\* J1939TouchEncoder.update: one pass of the while loop
CanPass(m, t, sendOK) ==
    LET u == CanUpload(Locals, t, sendOK)
    IN  IF u.exit = "break" THEN u ELSE CanMatch(u, m, t)

\* HIDTouchEncoder.update, lines 278-295: the next chunk of the file
HidUpload(u, t, sendOK) ==
    LET payload == Min(MAX_UPLOAD_SIZE, file_size - u.pos)
        report_to_send == 1 + 2 + payload
    IN  IF ~u.stream THEN u
        ELSE IF payload > 0
        THEN IF short(Reported(sendOK, report_to_send), report_to_send)
             THEN [u EXCEPT !.pos = @ + payload, !.state = "UPLOAD_ERROR",
                            !.exit = "break"]
             ELSE [u EXCEPT !.pos = @ + payload,
                            !.progress = add_progress(@, payload),
                            !.completed = add_progress(u.progress, payload),
                            !.cbs = @ \cup {u.state}]
        ELSE [u EXCEPT !.stream = FALSE, !.task = t + 60]

\* HIDTouchEncoder.update, lines 234-319: the match on update_state
HidMatch(u, m, t, sendOK) ==
    CASE u.state = "UPDATE_REQUEST" ->
           IF from_filename(file_ext) = -1
           THEN [u EXCEPT !.cbs = @ \cup {"UPDATE_REQUEST"}, !.exit = "raise"]
           ELSE [u EXCEPT !.cbs = @ \cup {"UPDATE_REQUEST"},
                          !.sends = Append(@, "LIVE_UPDATE"),
                          !.state = "UPDATE_CONFIRMATION", !.task = t + 1]
      [] u.state = "UPDATE_CONFIRMATION" ->
           LET v == [u EXCEPT !.cbs = @ \cup {"UPDATE_CONFIRMATION"}]
               next == IF m.data[3] = 1 THEN "FILE_UPLOAD" ELSE "UPDATE_REJECTED"
           IN  IF m = None \/ ~HidUpdateAckMsg(m) THEN v
               ELSE [v EXCEPT !.task = update_timeout,
                              !.stream = IF next = "FILE_UPLOAD" THEN TRUE ELSE @,
                              !.progress = IF next = "FILE_UPLOAD" THEN 0 ELSE @,
                              !.pos = IF next = "FILE_UPLOAD" THEN 0 ELSE @,
                              !.state = next,
                              !.cbs = @ \cup {next}]
      [] u.state = "FILE_UPLOAD" ->
           IF m # None /\ ~HidUpdateStatusMsg(m) THEN u
           ELSE IF m # None /\ m.data[3] # UE_OK
           THEN [u EXCEPT !.state = "UPLOAD_ERROR", !.exit = "break"]
           ELSE HidUpload([u EXCEPT !.state = IF m # None THEN "UPDATING" ELSE @],
                          t, sendOK)
      [] u.state = "UPDATING" ->
           IF m = None \/ ~HidUpdateStatusMsg(m) THEN u
           ELSE Updating(u, t, m.data[2], m.data[3],
                         IF Len(m.data) >= 4 THEN m.data[4] ELSE -1)
      [] OTHER -> [u EXCEPT !.exit = "break"]

\* HIDTouchEncoder.update: one pass of the while loop
HidPass(m, t, sendOK) == HidMatch(Locals, m, t, sendOK)

\* The frame the happy path expects once the device has come to stage s:
\* the accepting ack, the UPLOAD status without error, the COMPONENT frames
\* of bootloader, firmware and project at 0 and at 100, the UPDATE status
\* SUCCESS_RESTART.
ScriptFrame(tr, s) ==
    LET comp(ty, pr) == Component(tr, ty, CS_PROGRESS, pr)
        status(d) == IF tr = "CAN" THEN CanStatus(d) ELSE HidStatus(d)
    IN  CASE s = 0 -> IF tr = "CAN" THEN CanAck(0, CMD_LIVE_UPDATE)
                      ELSE HidAck(CMD_LIVE_UPDATE, 1)
          [] s = 1 -> status(<<ST_UPLOAD, UE_OK>>)
          [] s = 2 -> comp(CT_BOOTLOADER, 0)
          [] s = 3 -> comp(CT_BOOTLOADER, 100)
          [] s = 4 -> comp(CT_FIRMWARE, 0)
          [] s = 5 -> comp(CT_FIRMWARE, 100)
          [] s = 6 -> comp(CT_PROJECT, 0)
          [] s = 7 -> comp(CT_PROJECT, 100)
          [] s = 8 -> status(<<ST_UPDATE, US_SUCCESS_RESTART>>)
          [] OTHER -> None
ScriptDone == 8 + 1

\* The stage after update has read m at the time t: the script is left when
\* the device sends anything else or answers the upload before the file is
\* sent, when a deadline is reached or a chunk is not sent whole.
\* with_upload: the script holds the UPLOAD status frame.
ScriptStep(s, m, t, sendOK, with_upload) ==
    LET at == IF s = 1 /\ ~with_upload THEN 2 ELSE s
    IN  IF s = -1 \/ t >= task_timeout \/ t >= update_timeout THEN -1
        ELSE IF update_state = "FILE_UPLOAD" /\ file_stream /\ ~sendOK THEN -1
        ELSE IF m = None THEN s
        ELSE IF update_state = "UPDATE_REQUEST" \/ (s = 1 /\ file_stream) THEN -1
        ELSE IF m = ScriptFrame(transport, at) THEN at + 1
        ELSE -1

ObserveUpdate(m, t, sendOK, r, left) ==
    [obs EXCEPT
       !.script = ScriptStep(@, m, t, sendOK, TRUE),
       !.script0 = ScriptStep(@, m, t, sendOK, FALSE),
       !.ack_status =
           IF /\ update_state = "UPDATE_CONFIRMATION" /\ m # None
              /\ t < task_timeout /\ t < update_timeout
              /\ IsLiveUpdateAck(transport, m)
           THEN AckStatusByte(transport, m) ELSE @,
       !.upd_byte =
           IF /\ update_state = "UPDATING" /\ m # None
              /\ IsStatusFrame(transport, m, ST_UPDATE)
           THEN StatusByte(transport, m, 1) ELSE @,
       !.late = IF t > clock /\ ~left THEN @ + 1 ELSE @,
       !.accepted =
           @ \/ /\ update_state = "UPDATE_CONFIRMATION" /\ m # None
                /\ IsLiveUpdateAck(transport, m)
                /\ AckStatusByte(transport, m) = AcceptStatus(transport),
       !.short = @ \/ (r.pos > file_pos /\ ~sendOK),
       !.completed = IF r.completed # NoByte THEN r.completed ELSE @,
       !.cb_order = @ /\ (r.completed = NoByte \/ r.completed >= obs.completed),
       !.loop_exit = IF r.exit # "next" THEN r.exit
                     ELSE IF left THEN "condition" ELSE @]

\* A reading of time.time() against the deadlines ds: the time of the
\* reading before (no deadline has come nearer), a deadline itself, or a
\* time past a deadline; d + 1 stands for every time past d.
Readings(ds) == {t \in {clock} \cup ds \cup {d + 1 : d \in ds} : t >= clock}

UpdateReadings == Readings({task_timeout, update_timeout})

\* Whether send_to / send_rpt takes the whole chunk, where one is sent.
SendResults ==
    IF update_state = "FILE_UPLOAD" /\ file_stream THEN BOOLEAN ELSE {TRUE}

\* update(filepath, progress_cb) up to its loop: lines 237-251 (CAN),
\* 218-230 (HID)
CallUpdate ==
    /\ pc = "idle"
    /\ op' = "update"
    /\ pc' = "update"
    /\ update_state' = "UPDATE_REQUEST"
    /\ update_status' = US_ERROR
    /\ file_stream' = FALSE
    /\ file_pos' = 0
    /\ upload_progress' = 0
    /\ time_now' = clock
    /\ update_timeout' = clock + UPDATE_TIMEOUT
    /\ task_timeout' = clock + UPDATE_TIMEOUT
    /\ obs' = [obs EXCEPT !.script = IF from_filename(file_ext) = -1 THEN -1 ELSE @,
                          !.script0 = IF from_filename(file_ext) = -1 THEN -1 ELSE @]
    /\ UNCHANGED <<sessionVars, otherVars, clock, address, name, hid_connected, restartArgs,
                   timeout_end, timestamp, hp_devs, cb_seen, sent, ret,
                   restart_status, auth_status>>

\* Whether update restarts the device (line 362 CAN, 326 HID)
reboots_after_any_success(state, status) == state = "SUCCESS"
reboots(state, status) == state = "SUCCESS" /\ status # US_SUCCESS_UPTODATE

\* A loop that tests the phase deadline only.
loop_until_task(t, task, whole) == t < task
\* "while time_now < task_timeout and time_now < update_timeout" (line 251
\* CAN, 230 HID)
loop_goes_on(t, task, whole) == t < task /\ t < whole

\* What follows a pass r of the loop read at t: the loop condition, and after
\* the loop the timeout check, the REBOOTING callback and the return
\* (lines 357-366 of the CAN update, 321-330 of the HID update).
AfterPass(m, t, sendOK, r) ==
    LET left == r.exit # "next" \/ ~loop_goes_on(t, r.task, update_timeout)
        timed_out == t > r.task \/ t > update_timeout
        reboot == reboots(r.state, r.status)
    IN  /\ (t > clock /\ ~left) => obs.late < MaxLate
        /\ clock' = t
        /\ time_now' = t
        /\ update_state' = r.state
        /\ update_status' = r.status
        /\ file_stream' = r.stream
        /\ file_pos' = r.pos
        /\ upload_progress' = r.progress
        /\ task_timeout' = r.task
        /\ sent' = sent \o r.sends
        /\ obs' = ObserveUpdate(m, t, sendOK, r, left)
        /\ cb_seen' = cb_seen \cup r.cbs \cup
                      (IF left /\ r.exit \in {"next", "break"} /\ ~timed_out /\ reboot
                       THEN {"REBOOTING"} ELSE {})
        /\ pc' = CASE ~left -> "update"
                   [] r.exit \in {"return", "raise"} -> "done"
                   [] timed_out -> "done"
                   [] reboot -> "restart"
                   [] OTHER -> "done"
        /\ ret' = CASE ~left -> ret
                    [] r.exit = "return" -> "ERROR"
                    [] r.exit = "raise" -> "EXCEPTION"
                    [] timed_out -> "TIMEOUT"
                    [] reboot -> ret
                    [] OTHER -> UpdateStatusName(r.status)
        /\ to_utility' = FALSE
        /\ authenticate' = FALSE
        /\ wait' = IF left /\ r.exit \in {"next", "break"} /\ ~timed_out /\ reboot
                   THEN TRUE ELSE wait
        /\ UNCHANGED <<sessionVars, otherVars, op, address, name, hid_connected, update_timeout,
                       timeout_end, timestamp, hp_devs, restart_status, auth_status>>

\* J1939TouchEncoder.update: one pass of the loop and what follows it
UpdateIterCAN ==
    /\ pc = "update" /\ transport = "CAN"
    /\ \E t \in UpdateReadings, m \in {None} \cup CanFrames, sendOK \in SendResults :
          AfterPass(m, t, sendOK, CanPass(m, t, sendOK))

\* HIDTouchEncoder.update: one pass of the loop and what follows it
UpdateIterHID ==
    /\ pc = "update" /\ transport = "HID"
    /\ \E t \in UpdateReadings, m \in {None} \cup HidFrames, sendOK \in SendResults :
          AfterPass(m, t, sendOK, HidPass(m, t, sendOK))

\* ------------------------------------------------------------------ restart
Serials == {MySerial, OtherSerial}

\* The command restart sends (touch_encoder.py, lines 174-181)
RestartCommand(utility) ==
    IF utility THEN "RESTART_UTILITY_APP" ELSE "RESTART"
RestartOpcode(utility) ==
    IF utility THEN CMD_RESTART_UTILITY_APP ELSE CMD_RESTART

\* Whether TouchEncoder.restart authenticates first (lines 174-175)
authenticates_always(utility, auth) == auth
authenticates(utility, auth) == utility /\ auth

\* What restart does with the ack code once await_res has returned an ack:
\* J1939TouchEncoder.restart lines 190-202, HIDTouchEncoder.restart 176-183.
after_ack_waits(code, w) ==
    CASE code = "ACCESS_DENIED" -> "ACCESS_DENIED"
      [] code = "OK" -> "WAIT"
      [] OTHER -> "ERROR"
after_ack(code, w) ==
    CASE code = "ACCESS_DENIED" -> "ACCESS_DENIED"
      [] code = "OK" -> IF w THEN "WAIT" ELSE "SUCCESS"
      [] OTHER -> "ERROR"

\* msg.ack_code (AckCode) and ack.code (AckReportCode) of a restart ack
AckCodeOf(tr, f) ==
    IF tr = "CAN"
    THEN CASE f.data[1] = ACK_OK -> "OK"
           [] f.data[1] = ACK_ACCESS_DENIED -> "ACCESS_DENIED"
           [] OTHER -> "OTHER"
    ELSE CASE Signed8(f.data[3]) = HIDACK_OK -> "OK"
           [] Signed8(f.data[3]) = HIDACK_ACC_DENIED -> "ACCESS_DENIED"
           [] OTHER -> "OTHER"

\* The device's ack of the command with opcode cmd, by its layout.
IsAckOf(tr, f, cmd) ==
    IF tr = "CAN"
    THEN f.pgn = PGN_ACKNOWLEDGEMENT /\ f.sa = DevAddr /\ Len(f.data) = 8
         /\ f.data[2] = cmd
    ELSE Len(f.data) >= ACK_REPORT_LENGTH /\ f.data[1] = RPT_COMMAND_ACK
         /\ f.data[2] = cmd

\* msg.sa and msg.j1939_name of an AddressClaimMsg
claimed_address_kept(f, addr) == addr
claimed_address(f, addr) == f.sa
j1939_name(f) == LEInt(f.data)

\* restart(to_utility, wait, authenticate) is called
CallRestart ==
    /\ pc = "idle"
    /\ op' = "restart"
    /\ pc' = "restart"
    /\ \E u \in BOOLEAN, w \in BOOLEAN, a \in BOOLEAN :
          /\ to_utility' = u /\ wait' = w /\ authenticate' = a
    /\ UNCHANGED <<sessionVars, otherVars, clock, address, name, hid_connected, updateVars,
                   timeout_end, timestamp, hp_devs, cb_seen, sent, ret,
                   restart_status, auth_status, obs>>

\* restart returns status; update, when it is the caller, returns update_status
Return(status) ==
    /\ pc' = "done"
    /\ restart_status' = status
    /\ ret' = IF op = "update" THEN UpdateStatusName(update_status) ELSE status

\* The restart command is sent and await_res begins with its timeout and
\* timestamp: 1 s and time.time() on CAN, 5 s and none on HID.
SendRestart(t) ==
    /\ sent' = Append(sent, RestartCommand(to_utility))
    /\ pc' = "restart_ack"
    /\ timeout_end' = t + (IF transport = "CAN" THEN 1 ELSE 5)
    /\ timestamp' = IF transport = "CAN" THEN t ELSE -1

\* TouchEncoder.restart: authenticate is begun, or the command is sent
RestartBegin ==
    /\ pc = "restart"
    /\ IF authenticates(to_utility, authenticate)
       THEN /\ sent' = Append(sent, "ST_AUTH")
            /\ pc' = "auth_request"
            /\ timeout_end' = clock + 1
            /\ timestamp' = -1
       ELSE SendRestart(clock)
    /\ UNCHANGED <<sessionVars, otherVars, clock, address, name, hid_connected, op,
                   restartArgs, updateVars, hp_devs, cb_seen, ret,
                   restart_status, auth_status, obs>>

\* One pass of the loop of await_res that has read m at the time t:
\* "msg" if a parser took m, "again" if the loop goes on, "none" if it ends.
AwaitPass(m, stale, t, parsed) ==
    IF m # None /\ ~stale /\ parsed THEN "msg"
    ELSE IF t < timeout_end THEN "again" ELSE "none"

AuthParsed(m) ==
    m # None /\ (IF transport = "CAN" THEN AuthMsg(m, address) ELSE AuthReport(m))
\* auth_state read from the first byte of the frame on either transport
auth_state_first_byte(m) == m.data[1]
auth_state(m) == IF transport = "CAN" THEN m.data[1] ELSE m.data[4]
\* The state byte of the device's authentication frame, by its layout.
AuthStateByte(tr, f) == IF tr = "CAN" THEN f.data[1] ELSE f.data[4]

\* authenticate: the answer to ST_AUTH (lines 100-111 CAN, 96-108 HID)
AuthRequest ==
    /\ pc = "auth_request"
    /\ \E m \in {None} \cup FramesOf(transport), t \in Readings({timeout_end}) :
          /\ m = None => t >= timeout_end
          /\ clock' = t
          /\ LET r == AwaitPass(m, FALSE, t, AuthParsed(m))
             IN  CASE r = "again" ->
                        UNCHANGED <<pc, sent, timeout_end, timestamp, ret,
                                    restart_status, auth_status>>
                   [] r = "none" ->
                        /\ auth_status' = "ERROR"
                        /\ Return("ERROR")
                        /\ UNCHANGED <<sent, timeout_end, timestamp>>
                   [] r = "msg" /\ auth_state(m) = AUTH_COMPLETE ->
                        /\ auth_status' = "SUCCESS"
                        /\ SendRestart(t)
                        /\ UNCHANGED <<ret, restart_status>>
                   [] r = "msg" /\ auth_state(m) = AUTH_CHALLENGE ->
                        /\ sent' = Append(sent, "AUTH_RESPONSE")
                        /\ pc' = "auth_response"
                        /\ timeout_end' = t + 1
                        /\ UNCHANGED <<timestamp, ret, restart_status, auth_status>>
                   [] OTHER ->
                        /\ auth_status' = "AUTH_REQUEST_FAILED"
                        /\ Return("AUTH_REQUEST_FAILED")
                        /\ UNCHANGED <<sent, timeout_end, timestamp>>
          /\ obs' = IF AwaitPass(m, FALSE, t, AuthParsed(m)) = "msg"
                    THEN [obs EXCEPT !.auth1 = AuthStateByte(transport, m)]
                    ELSE obs
    /\ UNCHANGED <<sessionVars, otherVars, address, name, hid_connected, op, restartArgs,
                   updateVars, hp_devs, cb_seen>>

\* authenticate: the answer to the challenge response (lines 113-118 CAN,
\* 110-114 HID)
AuthResponse ==
    /\ pc = "auth_response"
    /\ \E m \in {None} \cup FramesOf(transport), t \in Readings({timeout_end}) :
          /\ m = None => t >= timeout_end
          /\ clock' = t
          /\ LET r == AwaitPass(m, FALSE, t, AuthParsed(m))
             IN  CASE r = "again" ->
                        UNCHANGED <<pc, sent, timeout_end, timestamp, ret,
                                    restart_status, auth_status>>
                   [] r = "msg" /\ auth_state(m) = AUTH_COMPLETE ->
                        /\ auth_status' = "SUCCESS"
                        /\ SendRestart(t)
                        /\ UNCHANGED <<ret, restart_status>>
                   [] OTHER ->
                        /\ auth_status' = "AUTH_CHALLENGE_FAILED"
                        /\ Return("AUTH_CHALLENGE_FAILED")
                        /\ UNCHANGED <<sent, timeout_end, timestamp>>
          /\ obs' = IF AwaitPass(m, FALSE, t, AuthParsed(m)) = "msg"
                    THEN [obs EXCEPT !.auth2 = AuthStateByte(transport, m)]
                    ELSE obs
    /\ UNCHANGED <<sessionVars, otherVars, address, name, hid_connected, op, restartArgs,
                   updateVars, hp_devs, cb_seen>>

\* What await_res made of the restart ack, for the history.
ObserveAck(m, stale, r) ==
    [obs EXCEPT
       !.ack = IF r = "msg" THEN AckCodeOf(transport, m)
               ELSE IF r = "none" THEN "NONE" ELSE @,
       !.dev_ack = IF /\ @ = "-" /\ m # None /\ ~stale
                      /\ IsAckOf(transport, m, RestartOpcode(to_utility))
                   THEN AckCodeOf(transport, m) ELSE @]

\* J1939TouchEncoder.restart, lines 187-197: the restart ack is awaited with
\* the timestamp of the call; stale: m was received before that time.
RestartAckCAN ==
    /\ pc = "restart_ack" /\ transport = "CAN"
    /\ \E m \in {None} \cup CanFrames, stale \in BOOLEAN,
          t \in Readings({timeout_end}) :
          /\ m = None => (t >= timeout_end /\ ~stale)
          /\ clock' = t
          /\ LET r == AwaitPass(m, stale, t, m # None /\ RestartAckMsg(m, address))
                 status == IF r = "msg" THEN after_ack(AckCodeOf("CAN", m), wait)
                           ELSE "ERROR"
             IN  /\ obs' = [ObserveAck(m, stale, r) EXCEPT
                              !.wait_from = IF r = "msg" /\ status = "WAIT"
                                            THEN t ELSE @]
                 /\ CASE r = "again" ->
                           UNCHANGED <<pc, timeout_end, timestamp, ret, restart_status>>
                      [] r = "msg" /\ status = "WAIT" ->
                           /\ pc' = "address_claim"
                           /\ timeout_end' = t + RESTART_TIMEOUT
                           /\ timestamp' = -1
                           /\ UNCHANGED <<ret, restart_status>>
                      [] OTHER ->
                           /\ Return(status)
                           /\ UNCHANGED <<timeout_end, timestamp>>
    /\ UNCHANGED <<sessionVars, otherVars, address, name, hid_connected, op, restartArgs,
                   updateVars, hp_devs, cb_seen, sent, auth_status>>

\* J1939TouchEncoder.restart, lines 196-202: the address claim is awaited
AddressClaimCAN ==
    /\ pc = "address_claim" /\ transport = "CAN"
    /\ \E m \in {None} \cup CanFrames, t \in Readings({timeout_end}) :
          /\ m = None => t >= timeout_end
          /\ clock' = t
          /\ LET r == AwaitPass(m, FALSE, t, m # None /\ AddressClaimMsg(m))
             IN  /\ obs' = [obs EXCEPT !.io_after_ack = TRUE,
                                       !.claim = IF r = "msg" THEN m ELSE @]
                 /\ CASE r = "again" ->
                           UNCHANGED <<pc, address, name, ret, restart_status>>
                      [] r = "msg" ->
                           /\ address' = claimed_address(m, address)
                           /\ name' = j1939_name(m)
                           /\ Return("SUCCESS")
                      [] OTHER ->
                           /\ Return("RESTART_TIMEOUT")
                           /\ UNCHANGED <<address, name>>
    /\ UNCHANGED <<sessionVars, otherVars, hid_connected, op, restartArgs, updateVars,
                   timeout_end, timestamp, hp_devs, cb_seen, sent, auth_status>>

\* HIDTouchEncoder.restart, lines 174-183, and the beginning of
\* _await_restart, lines 191-196: the disconnect and what platform.system()
\* returns
RestartAckHID ==
    /\ pc = "restart_ack" /\ transport = "HID"
    /\ \E m \in {None} \cup HidFrames, t \in Readings({timeout_end}),
          system \in {"Linux", "Windows"} :
          /\ m = None => t >= timeout_end
          /\ clock' = t
          /\ LET r == AwaitPass(m, FALSE, t, m # None /\ AckReport(m))
                 status == IF r = "msg" THEN after_ack(AckCodeOf("HID", m), wait)
                           ELSE "ERROR"
             IN  /\ obs' = [ObserveAck(m, FALSE, r) EXCEPT
                              !.wait_from = IF r = "msg" /\ status = "WAIT"
                                            THEN t ELSE @,
                              !.io_after_ack = IF r = "msg" /\ status = "WAIT"
                                               THEN TRUE ELSE @]
                 /\ CASE r = "again" ->
                           UNCHANGED <<pc, timeout_end, hid_connected, ret,
                                       restart_status>>
                      [] r = "msg" /\ status = "WAIT" ->
                           /\ hid_connected' = FALSE
                           /\ pc' = IF system = "Windows" THEN "poll" ELSE "hotplug"
                           /\ timeout_end' = t + RESTART_TIMEOUT
                           /\ UNCHANGED <<ret, restart_status>>
                      [] OTHER ->
                           /\ Return(status)
                           /\ UNCHANGED <<timeout_end, hid_connected>>
    /\ UNCHANGED <<sessionVars, otherVars, address, name, op, restartArgs, updateVars,
                   timestamp, hp_devs, cb_seen, sent, auth_status>>

\* The devices of the vendor and product ID that arrive while
\* handle_events_timeout_completed runs once, in their order.
Arrivals == {<<>>} \cup {<<a>> : a \in Serials}
               \cup {ab \in Serials \X Serials : ab[1] # ab[2]}

\* _await_restart, lines 205-215, with wait_hotplug_event: the loop ends when
\* the timeout is used up or ctx.devs holds ndevs = 1 device.
HotplugHID ==
    /\ pc = "hotplug" /\ transport = "HID"
    /\ \E arrived \in Arrivals, t \in Readings({timeout_end}) :
          /\ arrived = <<>> => t >= timeout_end
          /\ arrived # <<>> => clock < timeout_end
          /\ clock' = t
          /\ hp_devs' = arrived
          /\ LET device == \E i \in 1..Len(arrived) : arrived[i] = MySerial
             IN  /\ obs' = [obs EXCEPT !.my_arrival = device]
                 /\ hid_connected' = device
                 /\ Return(IF device THEN "SUCCESS" ELSE "RESTART_TIMEOUT")
    /\ UNCHANGED <<sessionVars, otherVars, address, name, op, restartArgs, updateVars,
                   timeout_end, timestamp, cb_seen, sent, auth_status>>

\* _await_restart, lines 196-204 and 212-215: on Windows hidapi.enumerate is
\* polled; present: the serial numbers it lists.
PollHID ==
    /\ pc = "poll" /\ transport = "HID"
    /\ \E present \in SUBSET Serials, t \in Readings({timeout_end}) :
          /\ clock' = t
          /\ LET device == t < timeout_end /\ MySerial \in present
             IN  /\ obs' = [obs EXCEPT !.my_arrival = device]
                 /\ hid_connected' = device
                 /\ IF device THEN Return("SUCCESS")
                    ELSE IF t < timeout_end
                    THEN UNCHANGED <<pc, ret, restart_status>>
                    ELSE Return("RESTART_TIMEOUT")
    /\ UNCHANGED <<sessionVars, otherVars, address, name, op, restartArgs, updateVars,
                   timeout_end, timestamp, hp_devs, cb_seen, sent, auth_status>>

Next == CallUpdate \/ UpdateIterCAN \/ UpdateIterHID
          \/ CallRestart \/ RestartBegin \/ AuthRequest \/ AuthResponse
          \/ RestartAckCAN \/ AddressClaimCAN
          \/ RestartAckHID \/ HotplugHID \/ PollHID

Spec == Init /\ [][Next]_vars

\* ------------------------------------------------------- the receive path
\* One session with its background receiver, and one call of await_res by
\* the caller.  The caller's steps take no time; the wall clock goes on
\* before the call and while the caller blocks in recv_msg / recv_rpt.

\* Message(address, data, timestamp) / BaseReport(raw_report, timestamp) as
\* the receiver builds it; n counts the frames put (history).
Stamped(f, t, n) ==
    [pgn |-> f.pgn, sa |-> f.sa, data |-> f.data, timestamp |-> t, n |-> n]

\* The frames the device sends while await_res is followed.
AwaitFrames(tr) ==
    IF tr = "CAN"
    THEN {CanAck(ACK_OK, CMD_RESTART), CanAck(ACK_OK, CMD_LIVE_UPDATE),
          CanAuth(AUTH_COMPLETE)}
    ELSE {HidAck(CMD_RESTART, HIDACK_OK), HidAck(CMD_LIVE_UPDATE, HIDACK_OK),
          HidAuth(AUTH_COMPLETE)}

\* The lists of parsers await_res is called with (None is the empty list).
ParserLists(tr) ==
    IF tr = "CAN"
    THEN {<<>>, <<"AuthMsg">>, <<"RestartAckMsg", "AckMsg">>,
          <<"AckMsg", "RestartAckMsg">>}
    ELSE {<<>>, <<"AuthReport">>, <<"UpdateAckMsg", "AckReport">>,
          <<"AckReport", "UpdateAckMsg">>}

\* m(msg.address, msg.data, self.address) / m(res.raw_report) returns:
\* no ValueError and no TypeError is raised.
Accepts(m, f, source_address) ==
    CASE m = "AckMsg" -> AckMsg(f, source_address)
      [] m = "RestartAckMsg" -> RestartAckMsg(f, source_address)
      [] m = "AuthMsg" -> AuthMsg(f, source_address)
      [] m = "AckReport" -> AckReport(f)
      [] m = "UpdateAckMsg" -> HidUpdateAckMsg(f)
      [] m = "AuthReport" -> AuthReport(f)
      [] m = "screen_msg" ->
            guide_response(f, source_address, PGN_GUIDE, GUIDE_SCREEN, screen_id, 0)
      [] m = "int_var_msg" ->
            guide_response(f, source_address, PGN_GUIDE, GUIDE_INT_VARIABLE,
                           screen_id, var_id)
      [] m = "str_var_msg" ->
            guide_response(f, source_address, PGN_GUIDE, GUIDE_STRING_VARIABLE,
                           screen_id, var_id)
      [] m = "var_msg" ->
            guide_response(f, source_address, response_pgn, GUIDE_VARIABLE,
                           screen_id, var_id)
      [] m = "GuideErrorReport" -> GuideErrorReport(f)
      [] m = "ScreenReport" -> ScreenReport(f)
      [] m = "VariableReport" -> VariableReport(f)
      [] OTHER -> FALSE

\* The for loop of await_res taking the last parser that accepts.
RECURSIVE parse_last(_, _, _)
parse_last(ms, f, source_address) ==
    IF ms = <<>> THEN None
    ELSE IF parse_last(Tail(ms), f, source_address) # None
         THEN parse_last(Tail(ms), f, source_address)
         ELSE IF Accepts(Head(ms), f, source_address)
              THEN [parser |-> Head(ms), timestamp |-> f.timestamp, n |-> f.n]
              ELSE None

\* The for loop of await_res: parsed_msg is what the first parser that does
\* not raise returns (break), None if every parser raises.
RECURSIVE parse(_, _, _)
parse(ms, f, source_address) ==
    IF ms = <<>> THEN None
    ELSE IF Accepts(Head(ms), f, source_address)
         THEN [parser |-> Head(ms), timestamp |-> f.timestamp, n |-> f.n]
         ELSE parse(Tail(ms), f, source_address)

\* The constructor raises IndexError, which await_res does not catch: AuthMsg
\* reads data[0] of a frame without data (j1939_messages.py 118);
\* ContextSensitiveReport reads raw_report[1], and raw_report[2] of a short
\* CS report, and AuthReport reads raw_report[3] (hid_reports.py 48, 51,
\* 133). The ack parsers test the length before they read.
index_error(m, f, source_address) ==
    CASE m = "AuthMsg" ->
            /\ SourceAddressMsg(f, source_address)
            /\ f.pgn = PGN_AUTHENTICATION
            /\ Len(f.data) = 0
      [] m = "AuthReport" ->
            /\ BaseReport(f)
            /\ \/ Len(f.data) = 1
               \/ f.data[1] = RPT_CS_DATA_SHORT /\ Len(f.data) < 3
               \/ /\ f.data[1] \in {RPT_CS_DATA_SHORT, RPT_CS_DATA_LONG}
                  /\ f.data[2] = CTX_AUTH
                  /\ Len(f.data) < 4
      [] OTHER -> FALSE

\* The for loop of await_res is left by an exception it does not catch.
RECURSIVE parse_raises(_, _, _)
parse_raises(ms, f, source_address) ==
    IF ms = <<>> THEN FALSE
    ELSE IF index_error(Head(ms), f, source_address) THEN TRUE
    ELSE IF Accepts(Head(ms), f, source_address) THEN FALSE
    ELSE parse_raises(Tail(ms), f, source_address)

\* Python's truth value of the timestamp argument: None and 0 are false, and
\* await_res reads nothing else of a false timestamp, so None is written 0.
Truthy(t) == t # 0

\* "msg and timestamp and msg.timestamp <= timestamp"
is_old_or_equal(t, since) == Truthy(since) /\ t <= since

\* "msg and timestamp and msg.timestamp < timestamp": the frame is skipped.
is_old(t, since) == Truthy(since) /\ t < since

\* A get that takes the frame put last.
queue_get_last(q) == IF q = <<>> THEN None ELSE q[Len(q)]

\* _recv_queue.get(timeout): the frame put first, None on queue.Empty.
queue_get(q) == IF q = <<>> THEN None ELSE Head(q)

\* The timeout await_res gives to recv_msg / recv_rpt.
recv_timeout(end, now) == end - now

\* The variables of the update and restart machine await_res does not use.
idleVars == <<address, name, hid_connected, file_ext, file_size, op,
              to_utility, wait, authenticate, update_state, update_status,
              file_stream, file_pos, upload_progress, task_timeout,
              update_timeout, hp_devs, cb_seen, sent, ret, restart_status,
              auth_status, obs>>

\* The update and restart machine at rest, for what await_res does not use.
IdleRest ==
    /\ address = DevAddr
    /\ name = DevName
    /\ hid_connected = TRUE
    /\ file_ext = ".zip"
    /\ file_size = 0
    /\ op = "-"
    /\ to_utility = FALSE /\ wait = FALSE /\ authenticate = FALSE
    /\ update_state = "UPDATE_REQUEST"
    /\ update_status = US_ERROR
    /\ file_stream = FALSE
    /\ file_pos = 0
    /\ upload_progress = 0
    /\ task_timeout = 0 /\ update_timeout = 0
    /\ hp_devs = <<>>
    /\ cb_seen = {}
    /\ sent = <<>>
    /\ ret = NoStatus
    /\ restart_status = NoStatus
    /\ auth_status = NoStatus
    /\ obs = Obs0

InitAwait ==
    /\ AwaitIdle /\ SecretIdle /\ ScanIdle /\ SendIdle /\ GuideIdle /\ ThreadIdle
    /\ NameIdle /\ CommandIdle /\ PgnIdle /\ BusIdle
    /\ transport \in {"CAN", "HID"}
    /\ clock = 1
    /\ pc = "idle"
    /\ time_now = 0 /\ timeout_end = 0 /\ timestamp = 0
    /\ IdleRest

\* _recv_msg / _recv_rpt, one frame: stamp it with time.time() and put it.
ReceiverPut ==
    /\ Len(enqueued) < MaxFrames
    /\ \E f \in AwaitFrames(transport) :
         LET msg == Stamped(f, clock, Len(enqueued) + 1)
         IN  /\ recv_queue' = Append(recv_queue, msg)
             /\ enqueued' = Append(enqueued, msg)
    /\ UNCHANGED <<transport, clock, pc, time_now, timeout_end, timestamp,
                   delivered, expected_res, res, idleVars, awaitOthers>>

\* The wall clock goes on: before the call, between the send of restart and
\* its call of await_res, and while the caller blocks on the empty queue,
\* which it does for the timeout it gave and no longer.
Tick ==
    /\ clock < MaxTime
    /\ \/ pc = "idle"
       \/ pc = "restart_cmd"
       \/ /\ pc = "await_res"
          /\ recv_queue = <<>>
          /\ clock < time_now + recv_timeout(timeout_end, time_now)
    /\ clock' = clock + 1
    /\ UNCHANGED <<transport, pc, time_now, timeout_end, timestamp,
                   awaitVars, idleVars, awaitOthers>>

\* await_res(expected_res, timeout, timestamp), up to the loop.
CallAwait ==
    /\ pc = "idle"
    /\ \E ms \in ParserLists(transport), timeout \in {1, 2},
          since \in 0..clock :
         /\ expected_res' = ms
         /\ timestamp' = since
         /\ time_now' = clock
         /\ timeout_end' = clock + timeout
    /\ res' = None
    /\ pc' = "await_res"
    /\ UNCHANGED <<transport, clock, recv_queue, enqueued, delivered, idleVars,
                   awaitOthers>>

\* One pass of the loop of await_res, entered with time_now < timeout_end
\* and no msg: get a frame or time out, skip it if it is old, parse it, read
\* the clock; then the loop condition, and the return.
AwaitIter ==
    /\ pc = "await_res"
    /\ \/ recv_queue # <<>>
       \/ clock >= time_now + recv_timeout(timeout_end, time_now)
    /\ LET got == queue_get(recv_queue)
           msg == IF got # None /\ is_old(got.timestamp, timestamp)
                  THEN None ELSE got
           raised == msg # None /\ expected_res # <<>>
                     /\ parse_raises(expected_res, msg, address)
           parsed == IF raised THEN None
                     ELSE IF msg # None /\ expected_res # <<>>
                     THEN parse(expected_res, msg, address)
                     ELSE IF msg # None
                          THEN [parser |-> "-", timestamp |-> msg.timestamp,
                                n |-> msg.n]
                          ELSE None
           verdict == IF msg = None THEN "old"
                      ELSE IF raised THEN "raised"
                      ELSE IF parsed = None THEN "dropped" ELSE "returned"
       IN  /\ recv_queue' = IF got = None THEN recv_queue ELSE Tail(recv_queue)
           /\ delivered' = IF got = None THEN delivered
                           ELSE Append(delivered, [msg |-> got, verdict |-> verdict])
           /\ res' = parsed
           /\ time_now' = clock
           /\ pc' = IF raised THEN "raised"
                    ELSE IF clock < timeout_end /\ parsed = None
                    THEN "await_res" ELSE "returned"
    /\ UNCHANGED <<transport, clock, timeout_end, timestamp, enqueued,
                   expected_res, idleVars, awaitOthers>>

NextAwait == ReceiverPut \/ Tick \/ CallAwait \/ AwaitIter

SpecAwait == InitAwait /\ [][NextAwait]_vars

\* ------------------------------------------------------ set_screen, set_var
\* One set_screen or set_var on a session whose receive queue is empty, the
\* device's frames arriving while the operation waits in await_res.

\* A GUIDE frame of the device: command or report id, screen id, variable id.
GuideCan(cmd, sid, vid) == Frame(PGN_GUIDE, DevAddr, <<cmd, sid, vid>> \o Zeros(5))
GuideHid(id, sid, vid) == Frame(0, 0, <<id, sid, vid>> \o Zeros(5))

\* The (screen, variable) pairs of the device's variable frames.
VarPairs == {<<1, 1>>, <<1, 2>>, <<2, 1>>}

\* What the device sends while a GUIDE operation waits: acks and error
\* reports, screen reports, echoed variables and variable notifications, a
\* knob event.
GuideFrames(tr) ==
    IF tr = "CAN"
    THEN {CanAck(ACK_OK, GUIDE_SET), CanAck(ACK_NACK, GUIDE_SET),
          CanAck(ACK_NACK, CMD_RESTART), GuideCan(KNOB_EVENT, 1, 0)}
             \cup {GuideCan(GUIDE_SCREEN, s, 0) : s \in 0..(MaxId + 1)}
             \cup {GuideCan(c, sv[1], sv[2]) :
                      c \in {GUIDE_VARIABLE, GUIDE_INT_VARIABLE, GUIDE_STRING_VARIABLE},
                      sv \in VarPairs}
    ELSE {GuideHid(GUIDE_ERROR, GUIDE_SCREEN, 0), GuideHid(GUIDE_ERROR, GUIDE_VARIABLE, 0),
          HidAck(CMD_RESTART, HIDACK_OK), GuideHid(KNOB_EVENT, 1, 0)}
             \cup {GuideHid(GUIDE_SCREEN, s, 0) : s \in 0..(MaxId + 1)}
             \cup {GuideHid(c, sv[1], sv[2]) :
                      c \in {GUIDE_VARIABLE, GUIDE_INT_VARIABLE, GUIDE_STRING_VARIABLE},
                      sv \in VarPairs}

\* The frame await_res returned, None if it returned None.
Answer == IF res = None THEN None ELSE enqueued[res.n]

\* set_screen after await_res.
set_screen_status(tr, r, f, sid) ==
    IF tr = "CAN"
    THEN IF r # None /\ r.parser = "AckMsg" /\ f.data[1] = ACK_NACK
         THEN "NACK"
         ELSE IF r # None /\ r.parser = "screen_msg" THEN "SUCCESS"
              ELSE "ERROR"
    ELSE IF r # None /\ r.parser = "GuideErrorReport" /\ f.data[2] = GUIDE_SCREEN
         THEN "NACK"
         ELSE IF r # None /\ r.parser = "ScreenReport" /\ f.data[2] = sid
              THEN "SUCCESS"
              ELSE "ERROR"

\* set_var after await_res.
set_var_status(tr, r, f, sid, vid) ==
    IF tr = "CAN"
    THEN IF r # None /\ r.parser = "AckMsg" /\ f.data[1] = ACK_NACK
         THEN "NACK"
         ELSE IF /\ r # None
                 /\ r.parser \in {"int_var_msg", "str_var_msg"}
                 /\ f.data[2] = sid /\ f.data[3] = vid
              THEN "SUCCESS"
              ELSE "ERROR"
    ELSE IF r # None /\ r.parser = "GuideErrorReport" /\ f.data[2] = GUIDE_VARIABLE
         THEN "NACK"
         ELSE IF /\ r # None /\ r.parser = "VariableReport"
                 /\ f.data[2] = sid /\ f.data[3] = vid
              THEN "SUCCESS"
              ELSE "ERROR"

InitGuide ==
    /\ AwaitIdle /\ SecretIdle /\ ScanIdle /\ SendIdle /\ GuideIdle /\ ThreadIdle
    /\ NameIdle /\ CommandIdle /\ PgnIdle /\ BusIdle
    /\ transport \in {"CAN", "HID"}
    /\ clock = 1
    /\ pc = "idle"
    /\ time_now = 0 /\ timeout_end = 0 /\ timestamp = 0
    /\ IdleRest

\* _recv_msg / _recv_rpt, one frame of the device before the deadline of the
\* operation that waits.
ReceiverPutGuide ==
    /\ pc = "await_res"
    /\ clock < timeout_end
    /\ Len(enqueued) < MaxFrames
    /\ \E f \in GuideFrames(transport) :
         LET msg == Stamped(f, clock, Len(enqueued) + 1)
         IN  /\ recv_queue' = Append(recv_queue, msg)
             /\ enqueued' = Append(enqueued, msg)
    /\ UNCHANGED <<transport, clock, pc, time_now, timeout_end, timestamp,
                   delivered, expected_res, res, idleVars, awaitOthers>>

\* await_res(expected_res) as the GUIDE operations call it: timeout 1.0, two
\* readings of the clock, and no timestamp.
CallAwaitRes(ms) ==
    /\ expected_res' = ms
    /\ timestamp' = 0
    /\ time_now' = clock
    /\ timeout_end' = clock + 2
    /\ res' = None
    /\ pc' = "await_res"

\* set_screen(screen_id), up to the loop of await_res.
CallSetScreen ==
    /\ pc = "idle" /\ guide_op = "-"
    /\ clock + 2 <= MaxTime
    /\ \E id \in 0..MaxId :
         /\ screen_id' = id
         /\ guide_cmd' = IF transport = "CAN"
                          THEN <<GUIDE_SET, GUIDE_SCREEN, id>> \o Zeros(5)
                          ELSE <<GUIDE_SCREEN, id>>
    /\ guide_op' = "set_screen"
    /\ CallAwaitRes(IF transport = "CAN" THEN <<"screen_msg", "AckMsg">>
                    ELSE <<"GuideErrorReport", "ScreenReport">>)
    /\ UNCHANGED <<transport, clock, recv_queue, enqueued, delivered, var_id,
                   guide_ret, idleVars, guideOthers>>

\* set_var(screen_id, var_id, var_data) with four bytes of data, up to the
\* loop of await_res.
CallSetVar ==
    /\ pc = "idle" /\ guide_op = "-"
    /\ clock + 2 <= MaxTime
    /\ \E sid \in 0..MaxId, vid \in 0..MaxId :
         /\ screen_id' = sid
         /\ var_id' = vid
         /\ guide_cmd' = IF transport = "CAN"
                          THEN <<GUIDE_SET, GUIDE_VARIABLE, sid, vid>> \o Zeros(4)
                          ELSE <<GUIDE_VARIABLE, sid, vid, 4, 0>> \o Zeros(4)
    /\ guide_op' = "set_var"
    /\ CallAwaitRes(IF transport = "CAN"
                    THEN <<"int_var_msg", "str_var_msg", "AckMsg">>
                    ELSE <<"GuideErrorReport", "VariableReport">>)
    /\ UNCHANGED <<transport, clock, recv_queue, enqueued, delivered,
                   guide_ret, idleVars, guideOthers>>

\* set_screen from the return of await_res to its own.
SetScreenReturn ==
    /\ pc = "returned" /\ guide_op = "set_screen"
    /\ guide_ret' = set_screen_status(transport, res, Answer, screen_id)
    /\ pc' = "done"
    /\ UNCHANGED <<transport, clock, time_now, timeout_end, timestamp,
                   awaitVars, guide_op, screen_id, var_id, guide_cmd,
                   idleVars, guideOthers>>

\* set_var from the return of await_res to its own.
SetVarReturn ==
    /\ pc = "returned" /\ guide_op = "set_var"
    /\ guide_ret' = set_var_status(transport, res, Answer, screen_id, var_id)
    /\ pc' = "done"
    /\ UNCHANGED <<transport, clock, time_now, timeout_end, timestamp,
                   awaitVars, guide_op, screen_id, var_id, guide_cmd,
                   idleVars, guideOthers>>

NextGuide ==
    \/ ReceiverPutGuide \/ Tick \/ AwaitIter
    \/ CallSetScreen \/ CallSetVar \/ SetScreenReturn \/ SetVarReturn

SpecGuide == InitGuide /\ [][NextGuide]_vars

\* ------------------------------------------------- the challenge response
\* Python's unbounded integers as sequences of bits, least significant
\* first, so that no width is assumed before the code masks.
RECURSIVE BitsOf(_)
BitsOf(n) == IF n = 0 THEN <<>> ELSE <<n % 2>> \o BitsOf(n \div 2)
Bit(x, i) == IF i <= Len(x) THEN x[i] ELSE 0
Longer(x, y) == IF Len(x) >= Len(y) THEN Len(x) ELSE Len(y)
Rest(x) == IF x = <<>> THEN <<>> ELSE Tail(x)
\* x ^ y
BitXor(x, y) == [i \in 1..Longer(x, y) |-> (Bit(x, i) + Bit(y, i)) % 2]
\* x + y, c the carry
RECURSIVE AddCarry(_, _, _)
AddCarry(x, y, c) ==
    IF x = <<>> /\ y = <<>>
    THEN IF c = 1 THEN <<1>> ELSE <<>>
    ELSE <<(Bit(x, 1) + Bit(y, 1) + c) % 2>>
             \o AddCarry(Rest(x), Rest(y), (Bit(x, 1) + Bit(y, 1) + c) \div 2)
BitAdd(x, y) == AddCarry(x, y, 0)
\* x << k and x >> k
ShiftLeft(x, k) == [i \in 1..k |-> 0] \o x
ShiftRight(x, k) == SubSeq(x, k + 1, Len(x))
\* x & 0xffffffff
Mask32(x) == [i \in 1..32 |-> Bit(x, i)]
\* int.from_bytes(bs, 'little')
RECURSIVE from_bytes(_)
from_bytes(bs) ==
    IF bs = <<>> THEN <<>>
    ELSE [i \in 1..8 |-> (Head(bs) \div (2 ^ (i - 1))) % 2] \o from_bytes(Tail(bs))
\* x.to_bytes(4, 'little'): OverflowError if x does not fit
OverflowError == <<0 - 1>>
to_bytes(x) ==
    IF \E i \in 33..Len(x) : x[i] = 1 THEN OverflowError
    ELSE [k \in 1..4 |->
            Bit(x, 8 * k - 7) + 2 * Bit(x, 8 * k - 6) + 4 * Bit(x, 8 * k - 5)
            + 8 * Bit(x, 8 * k - 4) + 16 * Bit(x, 8 * k - 3)
            + 32 * Bit(x, 8 * k - 2) + 64 * Bit(x, 8 * k - 1)
            + 128 * Bit(x, 8 * k)]

\* Authentication.service_tool_secret without the mask
service_tool_secret_unmasked(secret, magic) ==
    BitXor(magic,
           BitAdd(BitAdd(BitAdd(secret, BitsOf(AUTH_MAGIC)), ShiftLeft(magic, 6)),
                  ShiftRight(magic, 2)))

\* Authentication.service_tool_secret
service_tool_secret(secret, magic) ==
    Mask32(BitXor(magic,
                  BitAdd(BitAdd(BitAdd(secret, BitsOf(AUTH_MAGIC)),
                                ShiftLeft(magic, 6)),
                         ShiftRight(magic, 2))))

\* Authentication.secret(clr, secret, magic)
secret(clr, s, magic) ==
    IF clr = CLR_SERVICE_TOOL THEN service_tool_secret(s, magic) ELSE magic

\* The bytes a challenge is made of, and the addresses of the host's CA.
ChallengeBytes == {0, 5, 128, 255}
CaAddresses == {1, 249}

\* The authentication frame of the device that carries a challenge.
ChallengeFrame(tr, c) ==
    IF tr = "CAN" THEN Frame(PGN_AUTHENTICATION, DevAddr, <<AUTH_CHALLENGE>> \o c \o Zeros(3))
    ELSE Frame(0, 0, <<RPT_CS_DATA_SHORT, CTX_AUTH, 5, AUTH_CHALLENGE>> \o c)

\* msg.challenge / auth_report.challenge
challenge_of(tr, f) ==
    IF tr = "CAN" THEN from_bytes(Slice(f.data, 1, 5))
    ELSE from_bytes(Slice(f.data, 4, 8))

\* The response authenticate computes and the bytes it sends:
\* AUTHENTICATION payload on CAN, ContextSensitiveReport.from_fragments on
\* HID; an OverflowError of to_bytes leaves authenticate before the send.
response_frame(tr, clr, ca, f) ==
    LET response == to_bytes(secret(clr, BitsOf(IF tr = "CAN" THEN ca ELSE HID_SECRET),
                                    challenge_of(tr, f)))
    IN  IF response = OverflowError THEN OverflowError
        ELSE IF tr = "CAN" THEN <<AUTH_RESPONSE>> \o response
        ELSE <<RPT_CS_DATA_SHORT, CTX_AUTH, 5, AUTH_RESPONSE>> \o response

InitSecret ==
    /\ AwaitIdle /\ ScanIdle /\ SendIdle /\ GuideIdle /\ ThreadIdle
    /\ NameIdle /\ CommandIdle /\ PgnIdle /\ BusIdle
    /\ transport \in {"CAN", "HID"}
    /\ clearance \in {CLR_SERVICE_TOOL, CLR_INVALID}
    /\ ca_address \in CaAddresses
    /\ challenge \in [1..4 -> ChallengeBytes]
    /\ response_sent = <<>>
    /\ clock = 0
    /\ pc = "auth_request"
    /\ time_now = 0 /\ timeout_end = 0 /\ timestamp = 0
    /\ IdleRest

\* authenticate, from the CHALLENGE frame to the send of the response
\* (j1939_te.py 109-111, hid_te.py 104-107)
SendResponse ==
    /\ pc = "auth_request"
    /\ response_sent = <<>>
    /\ response_sent' =
           response_frame(transport, clearance, ca_address,
                          ChallengeFrame(transport, challenge))
    /\ pc' = "auth_response"
    /\ UNCHANGED <<transport, clock, time_now, timeout_end, timestamp, idleVars,
                   secretOthers, clearance, ca_address, challenge>>

NextSecret == SendResponse

SpecSecret == InitSecret /\ [][NextSecret]_vars

\* ------------------------------------------------------ scan_for_devices
\* What the bus delivers during a scan: address claims of two devices, and
\* a frame that is no address claim.
ScanFrames ==
    {CanClaim(DevAddr, DevName), CanClaim(OtherAddr, OtherName),
     CanAck(ACK_OK, CMD_RESTART)}

\* The AddressClaimMsg appended to messages: its address and its name.
Claim(f) == [sa |-> f.sa, j1939_name |-> j1939_name(f)]

\* J1939CALinux.scan_for_devices, one pass of the loop on the message msg:
\* every message AddressClaimMsg takes is appended.
scan_linux(msgs, msg) ==
    IF msg # None /\ AddressClaimMsg(msg) THEN Append(msgs, Claim(msg)) ELSE msgs

\* J1939CAUniversal.scan_for_devices, one pass of the loop: a message is
\* appended if its address was not seen and AddressClaimMsg takes it.
\* msg.address is (interface, priority, pgn, source); interface and priority
\* are the same for all frames here.
address_of(msg) == <<msg.pgn, msg.sa>>
scan_universal(msgs, seen, msg) ==
    IF msg # None /\ address_of(msg) \notin seen /\ AddressClaimMsg(msg)
    THEN Append(msgs, Claim(msg)) ELSE msgs
seen_universal(seen, msg) ==
    IF msg # None /\ address_of(msg) \notin seen /\ AddressClaimMsg(msg)
    THEN seen \cup {address_of(msg)} ELSE seen

InitScan ==
    /\ AwaitIdle /\ SecretIdle /\ SendIdle /\ GuideIdle /\ ThreadIdle
    /\ NameIdle /\ CommandIdle /\ PgnIdle /\ BusIdle
    /\ backend \in {"linux", "universal"}
    /\ messages = <<>> /\ addresses = {} /\ received = <<>>
    /\ transport = "CAN"
    /\ clock = 0
    /\ pc = "idle"
    /\ time_now = 0 /\ timeout_end = 0 /\ timestamp = 0
    /\ IdleRest

\* scan_for_devices(timeout=2.0) up to the loop: the request for address
\* claims is sent, the list is empty, the deadline is set.
CallScan ==
    /\ pc = "idle"
    /\ pc' = "scan"
    /\ sent' = Append(sent, "PGN_REQUEST")
    /\ messages' = <<>>
    /\ addresses' = {}
    /\ timeout_end' = clock + 2
    /\ UNCHANGED <<transport, clock, address, name, hid_connected, file_ext,
                   file_size, op, restartArgs, updateVars, timestamp, hp_devs,
                   cb_seen, ret, restart_status, auth_status, obs, backend,
                   received, scanOthers>>

\* One pass of the loop, or its end: the clock is read; before the deadline
\* recv_msg returns a frame or None.
ScanIter(linux) ==
    /\ pc = "scan"
    /\ \E t \in {clock, clock + 1} :
         /\ clock' = t
         /\ IF t < timeout_end
            THEN /\ \E msg \in {None} \cup ScanFrames :
                      /\ msg # None => Len(received) < MaxClaims
                      /\ received' = IF msg = None THEN received
                                     ELSE Append(received, msg)
                      /\ messages' = IF linux THEN scan_linux(messages, msg)
                                     ELSE scan_universal(messages, addresses, msg)
                      /\ addresses' = IF linux THEN addresses
                                      ELSE seen_universal(addresses, msg)
                 /\ pc' = "scan"
            ELSE /\ pc' = "scanned"
                 /\ UNCHANGED <<received, messages, addresses>>
    /\ UNCHANGED <<transport, address, name, hid_connected, file_ext, file_size,
                   op, restartArgs, updateVars, timeout_end, timestamp, hp_devs,
                   cb_seen, sent, ret, restart_status, auth_status, obs,
                   backend, scanOthers>>

ScanIterLinux == backend = "linux" /\ ScanIter(TRUE)
ScanIterUniversal == backend = "universal" /\ ScanIter(FALSE)

NextScan == CallScan \/ ScanIterLinux \/ ScanIterUniversal

SpecScan == InitScan /\ [][NextScan]_vars

\* ------------------------------------------- J1939CAUniversal.send_to
\* The caller's thread runs send_to step by step (clear the event, send_pgn,
\* wait on the event); the job thread of the J1939 library runs
\* CustomJ1939.async_job_thread; the bus carries the transport protocol.
\* A transmission of more than 8 bytes lives in the library's _snd_buffer,
\* one per destination, from send_pgn until the job thread removes it.

\* The destinations send_to is given: the device and the global address.
Destinations == {DevAddr, 255}
\* The payload lengths: one frame, more than one frame.
DataLengths == {8, 8 + 1}

NoBuffer == [state |-> "-", of |-> 0]
Buffer(dest) ==
    IF \E i \in 1..Len(snd_buffer) : snd_buffer[i].dest = dest
    THEN CHOOSE b \in {snd_buffer[i] : i \in 1..Len(snd_buffer)} : b.dest = dest
    ELSE NoBuffer
RECURSIVE Without(_, _)
Without(bs, state) ==
    IF bs = <<>> THEN <<>>
    ELSE IF Head(bs).state = state THEN Without(Tail(bs), state)
         ELSE <<Head(bs)>> \o Without(Tail(bs), state)

\* multi_packet_msg_sent.clear()
clear(event) == FALSE

InitSend ==
    /\ AwaitIdle /\ SecretIdle /\ ScanIdle /\ SendIdle /\ GuideIdle /\ ThreadIdle
    /\ NameIdle /\ CommandIdle /\ PgnIdle /\ BusIdle
    /\ transport = "CAN"
    /\ clock = 0
    /\ pc = "idle"
    /\ time_now = 0 /\ timeout_end = 0 /\ timestamp = 0
    /\ IdleRest

\* send_to(pgn, dest_address, data) is called: data_len is taken and the
\* event is cleared (lines 125-127).
CallSendTo ==
    /\ pc = "idle"
    /\ calls < MaxSends
    /\ \E dest \in Destinations, data_len \in DataLengths :
         call' = [n |-> calls + 1, dest |-> dest, data_len |-> data_len]
    /\ calls' = calls + 1
    /\ multi_packet_msg_sent' = clear(multi_packet_msg_sent)
    /\ pc' = "send_pgn"
    /\ UNCHANGED <<transport, clock, time_now, timeout_end, timestamp, idleVars,
                   snd_buffer, send_ret, completed, sendOthers>>

\* send_to returns v (lines 132, 136, 137).
SendReturn(v) ==
    /\ send_ret' = Append(send_ret, v)
    /\ call' = None
    /\ pc' = "idle"

\* self._ca.send_pgn (line 128) and what follows it: a payload of one frame
\* is sent and send_to returns its length; a longer one opens a
\* transmission unless one to this destination is open (send_pgn is then
\* false and send_to returns 0), and send_to begins to wait.
SendPgn ==
    /\ pc = "send_pgn"
    /\ IF call.data_len <= 8
       THEN /\ SendReturn(call.data_len)
            /\ UNCHANGED <<snd_buffer, timeout_end>>
       ELSE IF Buffer(call.dest) # NoBuffer
       THEN /\ SendReturn(0)
            /\ UNCHANGED <<snd_buffer, timeout_end>>
       ELSE /\ snd_buffer' = Append(snd_buffer,
                                   [dest |-> call.dest, state |-> "SENDING",
                                    of |-> call.n])
            /\ timeout_end' = clock + SEND_TIMEOUT
            /\ pc' = "wait"
            /\ UNCHANGED <<call, send_ret>>
    /\ UNCHANGED <<transport, clock, time_now, timestamp, idleVars,
                   multi_packet_msg_sent, calls, completed, sendOthers>>

\* multi_packet_msg_sent.wait(timeout) returns (lines 135-137): true as soon
\* as the event is set, false once the timeout is over.
WaitReturns ==
    /\ pc = "wait"
    /\ \/ /\ multi_packet_msg_sent
          /\ SendReturn(call.data_len)
       \/ /\ ~multi_packet_msg_sent
          /\ clock >= timeout_end
          /\ SendReturn(0)
    /\ UNCHANGED <<transport, clock, time_now, timeout_end, timestamp, idleVars,
                   multi_packet_msg_sent, snd_buffer, calls, completed,
                   sendOthers>>

\* The transport protocol on the bus ends a transmission: the last packet
\* is acknowledged and the buffer is TRANSMISSION_FINISHED, or the
\* connection is aborted and the buffer is gone.
Transmission ==
    /\ \E i \in 1..Len(snd_buffer) :
         /\ snd_buffer[i].state = "SENDING"
         /\ \/ /\ snd_buffer' = [snd_buffer EXCEPT
                                    ![i].state = "TRANSMISSION_FINISHED"]
               /\ completed' = completed \cup {snd_buffer[i].of}
            \/ /\ snd_buffer' = Without([snd_buffer EXCEPT ![i].state = "ABORTED"],
                                        "ABORTED")
               /\ UNCHANGED completed
    /\ UNCHANGED <<transport, clock, pc, time_now, timeout_end, timestamp,
                   idleVars, multi_packet_msg_sent, call, calls, send_ret,
                   sendOthers>>

\* CustomJ1939.async_job_thread (lines 38-43): the event is set if a buffer
\* is TRANSMISSION_FINISHED, then the library's job removes such buffers.
AsyncJobThread ==
    /\ snd_buffer # <<>>
    /\ multi_packet_msg_sent' =
           IF \E i \in 1..Len(snd_buffer) :
                  snd_buffer[i].state = "TRANSMISSION_FINISHED"
           THEN TRUE ELSE multi_packet_msg_sent
    /\ snd_buffer' = Without(snd_buffer, "TRANSMISSION_FINISHED")
    /\ UNCHANGED <<transport, clock, pc, time_now, timeout_end, timestamp,
                   idleVars, call, calls, send_ret, completed, sendOthers>>

\* Time passes while send_to waits, up to its timeout; the job thread is
\* woken when a transmission finishes, so none passes before it has run.
SendTick ==
    /\ pc = "wait"
    /\ clock < timeout_end
    /\ \A i \in 1..Len(snd_buffer) : snd_buffer[i].state # "TRANSMISSION_FINISHED"
    /\ clock' = clock + 1
    /\ UNCHANGED <<transport, pc, time_now, timeout_end, timestamp, idleVars,
                   sendVars, sendOthers>>

NextSend == CallSendTo \/ SendPgn \/ WaitReturns \/ Transmission
               \/ AsyncJobThread \/ SendTick

SpecSend == InitSend /\ [][NextSend]_vars

\* ------------------------------------------------------------------ claims
Done == pc = "done"
Sent(c) == \E i \in 1..Len(sent) : sent[i] = c
RestartSent == Sent("RESTART") \/ Sent("RESTART_UTILITY_APP")
Components == {"UPDATING_BOOTLOADER", "UPDATING_FIRMWARE", "UPDATING_PROJECT"}

C2_RejectedAck ==
    (op = "update" /\ obs.ack_status = 2) =>
        /\ "UPDATE_REJECTED" \in cb_seen
        /\ Done => (ret = "ERROR" \/ time_now > update_timeout)

\* C3: when the loop of update ends because the time has reached a deadline
\* while the state is not terminal, update returns TIMEOUT.
C3_DeadlineGivesTimeout ==
    (/\ op = "update" /\ Done /\ obs.loop_exit = "condition"
     /\ update_state \in {"UPDATE_REQUEST", "UPDATE_CONFIRMATION",
                          "FILE_UPLOAD", "UPDATING"})
        => ret = "TIMEOUT"

\* C4: after an UPDATE status frame read in UPDATING, update_status is the
\* status of the frame; ONGOING keeps UPDATING, the success statuses give
\* SUCCESS, ERROR and FAILURE give ERROR, and update returns ERROR or FAILURE
\* as the frame says.
C4_UpdateFrameDecides ==
    (op = "update" /\ obs.upd_byte # NoByte) =>
        LET st == Signed8(obs.upd_byte)
        IN  /\ update_status = st
            /\ update_state = (CASE st = US_ONGOING -> "UPDATING"
                                 [] st >= US_SUCCESS -> "SUCCESS"
                                 [] OTHER -> "ERROR")
            /\ (Done /\ st < US_ONGOING) => ret = UpdateStatusName(st)

C7_AckOfSentCommandDecides ==
    (Done /\ obs.dev_ack # "-") =>
        CASE obs.dev_ack = "ACCESS_DENIED" -> restart_status = "ACCESS_DENIED"
          [] obs.dev_ack = "OK" ->
               IF wait THEN obs.wait_from >= 0 ELSE restart_status = "SUCCESS"
          [] OTHER -> restart_status = "ERROR"

\* C8: CAN restart(wait=true) after the OK ack: an address claim received
\* before await_res gives up replaces the address and the name of the session
\* by the source address and the NAME of the claim and gives SUCCESS; with no
\* claim restart returns RESTART_TIMEOUT no sooner than RESTART_TIMEOUT after
\* the ack, the address and the name unchanged.
C8_AddressClaimOrTimeout ==
    (transport = "CAN" /\ Done /\ obs.wait_from >= 0) =>
        IF obs.claim # None
        THEN /\ restart_status = "SUCCESS"
             /\ address = obs.claim.sa /\ name = obs.claim.data[1]
        ELSE /\ restart_status = "RESTART_TIMEOUT"
             /\ address = DevAddr /\ name = DevName
             /\ clock >= obs.wait_from + RESTART_TIMEOUT

C8_Witness ==
    /\ transport = "CAN" /\ op = "restart" /\ Done /\ obs.claim # None
    /\ address = OtherAddr /\ name = OtherName /\ restart_status = "SUCCESS"

\* C9: HID restart(wait=true) returns RESTART_TIMEOUT only when the deadline
\* of the wait has come, and then no device with the serial number of the
\* session has appeared.
C9_TimeoutOnlyAtDeadline ==
    (transport = "HID" /\ Done /\ restart_status = "RESTART_TIMEOUT") =>
        (clock >= timeout_end /\ ~obs.my_arrival)

\* C10: with to_utility and authenticate both true restart begins with
\* authenticate, sends the restart command only after it returned SUCCESS and
\* returns its status otherwise; with any other flags there is no
\* authentication exchange.
C10_AuthenticateFirst ==
    IF to_utility /\ authenticate
    THEN /\ sent # <<>> => sent[1] = "ST_AUTH"
         /\ RestartSent => auth_status = "SUCCESS"
         /\ auth_status \notin {NoStatus, "SUCCESS"} =>
                (Done /\ ret = auth_status /\ ~RestartSent)
    ELSE ~Sent("ST_AUTH") /\ ~Sent("AUTH_RESPONSE") /\ auth_status = NoStatus

C10_Witness ==
    /\ to_utility /\ authenticate /\ Done
    /\ auth_status = "AUTH_CHALLENGE_FAILED" /\ ret = "AUTH_CHALLENGE_FAILED"
    /\ sent = <<"ST_AUTH", "AUTH_RESPONSE">>

\* ---- claims on the receive path (SpecAwait)
Returned == pc = "returned"
\* The frame recv returned and the old-timestamp test let through is one
\* that some parser of expected_res accepts.
Acceptable(d) ==
    /\ d.verdict # "old"
    /\ \E i \in 1..Len(expected_res) : Accepts(expected_res[i], d.msg, address)

\* C11: await_res called with a timestamp never returns a frame whose
\* timestamp is strictly older: every such frame it gets is skipped, and it
\* goes on waiting (it returns None only once the deadline is reached); a
\* frame whose timestamp equals the argument is not skipped.
C11_OldFramesSkipped ==
    Truthy(timestamp) =>
        /\ \A i \in 1..Len(delivered) :
             /\ delivered[i].msg.timestamp < timestamp
                    => delivered[i].verdict = "old"
             /\ delivered[i].msg.timestamp = timestamp
                    => delivered[i].verdict # "old"
        /\ res # None => res.timestamp >= timestamp
        /\ (Returned /\ res = None) => clock >= timeout_end

C11_Witness ==
    /\ Returned
    /\ Truthy(timestamp)
    /\ \E i \in 1..Len(delivered) : delivered[i].msg.timestamp < timestamp
    /\ res # None
    /\ res.timestamp = timestamp

C13_FifoDelivery ==
    /\ Len(delivered) <= Len(enqueued)
    /\ \A i \in 1..Len(delivered) :
         /\ delivered[i].msg = enqueued[i]
         /\ delivered[i].msg.n = i
    /\ recv_queue = SubSeq(enqueued, Len(delivered) + 1, Len(enqueued))

\* A frame was put while await_res was waiting, after one it had got, and
\* another one is still queued.
C13_Witness ==
    /\ pc = "await_res"
    /\ Len(delivered) >= 2
    /\ delivered[2].msg.timestamp > delivered[1].msg.timestamp
    /\ recv_queue # <<>>

\* ---- claims on authenticate (Spec)
ResponsesSent == Cardinality({i \in 1..Len(sent) : sent[i] = "AUTH_RESPONSE"})

\* C14: authenticate, on both transports.  If the first authentication
\* frame await_res returns says COMPLETE it returns SUCCESS and sends no
\* response; if it says neither COMPLETE nor CHALLENGE it returns
\* AUTH_REQUEST_FAILED; after a CHALLENGE it sends exactly one response and
\* returns SUCCESS if and only if the next authentication frame says
\* COMPLETE, AUTH_CHALLENGE_FAILED otherwise.
C14_AuthenticateOutcome ==
    /\ obs.auth1 = AUTH_COMPLETE =>
           auth_status = "SUCCESS" /\ ResponsesSent = 0
    /\ obs.auth1 \notin {NoByte, AUTH_COMPLETE, AUTH_CHALLENGE} =>
           auth_status = "AUTH_REQUEST_FAILED" /\ ResponsesSent = 0
    /\ obs.auth1 = AUTH_CHALLENGE =>
           /\ ResponsesSent = 1
           /\ auth_status \in {NoStatus, "SUCCESS", "AUTH_CHALLENGE_FAILED"}
           /\ auth_status = "SUCCESS" <=> obs.auth2 = AUTH_COMPLETE
           /\ (auth_status = NoStatus) <=> (pc = "auth_response")
    /\ obs.auth1 = NoByte => ResponsesSent = 0

\* The challenge was answered and the device said COMPLETE, on HID.
C14_Witness ==
    /\ transport = "HID"
    /\ obs.auth1 = AUTH_CHALLENGE
    /\ obs.auth2 = AUTH_COMPLETE
    /\ auth_status = "SUCCESS"
    /\ ResponsesSent = 1

\* ---- claims on the challenge response (SpecSecret)
\* (C ^ (secret + 0x63F07B35 + (C << 6) + (C >> 2))) & 0xFFFFFFFF as four
\* little-endian bytes, worked out on the 16-bit halves of the 32-bit words.
Half == 2 ^ 16
RECURSIVE Xor16(_, _)
Xor16(a, b) ==
    IF a = 0 THEN b
    ELSE IF b = 0 THEN a
    ELSE ((a + b) % 2) + 2 * Xor16(a \div 2, b \div 2)
ClaimedResponse(s, c) ==
    LET cl == c[1] + 256 * c[2]
        ch == c[3] + 256 * c[4]
        shl_lo == (cl * 64) % Half
        shl_hi == (ch * 64 + (cl * 64) \div Half) % Half
        shr_lo == (cl \div 4) + (ch % 4) * 16384
        shr_hi == ch \div 4
        lo == (s % Half) + (AUTH_MAGIC % Half) + shl_lo + shr_lo
        hi == (s \div Half) + (AUTH_MAGIC \div Half) + shl_hi + shr_hi
                  + (lo \div Half)
        r_lo == Xor16(cl, lo % Half)
        r_hi == Xor16(ch, hi % Half)
    IN  <<r_lo % 256, r_lo \div 256, r_hi % 256, r_hi \div 256>>

\* C15: for every challenge C the response authenticate sends for
\* SERVICE_TOOL clearance is (C ^ (secret + 0x63F07B35 + (C << 6) +
\* (C >> 2))) & 0xFFFFFFFF, with the secret 0x1337 on HID and the host CA's
\* own source address on CAN, in four little-endian bytes (to_bytes never
\* overflows); for any other clearance the response is C itself.
C15_ResponseValue ==
    response_sent # <<>> =>
        response_sent =
            (IF transport = "CAN" THEN <<AUTH_RESPONSE>>
             ELSE <<RPT_CS_DATA_SHORT, CTX_AUTH, 5, AUTH_RESPONSE>>)
            \o (IF clearance = CLR_SERVICE_TOOL
                THEN ClaimedResponse(IF transport = "CAN" THEN ca_address
                                     ELSE HID_SECRET, challenge)
                ELSE challenge)

\* The response to the challenge 0xFFFFFFFF, whose shift by 6 leaves 32 bits.
C15_Witness ==
    /\ response_sent # <<>>
    /\ clearance = CLR_SERVICE_TOOL
    /\ transport = "CAN"
    /\ challenge = <<255, 255, 255, 255>>

\* ---- claims on scan_for_devices (SpecScan)
Scanned == pc = "scanned"
ClaimsFrom(sa) ==
    {i \in 1..Len(received) : AddressClaimMsg(received[i]) /\ received[i].sa = sa}
Returned_sa(sa) == {i \in 1..Len(messages) : messages[i].sa = sa}

\* C16: whatever address claims are received during a scan, several from
\* one source address among them, scan_for_devices returns one message for
\* each source address that claimed and none for any other, on both CA
\* backends.
C16_EachAddressOnce ==
    Scanned =>
        \A sa \in {DevAddr, OtherAddr} :
            Cardinality(Returned_sa(sa)) = (IF ClaimsFrom(sa) = {} THEN 0 ELSE 1)

\* ---- claims on J1939CAUniversal.send_to (SpecSend)
\* C17: send_to with a payload of more than 8 bytes returns the length of
\* the payload only when the multi-packet transmission of that payload has
\* completed, and 0 otherwise; the completion of an earlier transmission
\* never makes it return the length.
C17_ReturnsAfterOwnTransmission ==
    \A n \in 1..Len(send_ret) :
        send_ret[n] > 8 => n \in completed

\* ---- claims on set_screen and set_var (SpecGuide)
\* The first frame of fs that satisfies one of the two tests, as "echo" or
\* "nack"; "-" if none does.
RECURSIVE FirstAnswer(_, _, _)
FirstAnswer(fs, echo, nack) ==
    IF fs = <<>> THEN "-"
    ELSE IF Head(fs).n \in echo THEN "echo"
         ELSE IF Head(fs).n \in nack THEN "nack"
              ELSE FirstAnswer(Tail(fs), echo, nack)

\* The device's frame is a GUIDE frame of this command or report id.
IsGuideFrame(f, id) ==
    /\ transport = "CAN" => f.pgn = PGN_GUIDE /\ f.sa = DevAddr
    /\ f.data[1] = id

\* The device's refusal of the GUIDE command: the NACK ack of GUIDE_SET on
\* CAN, the GUIDE error report naming the command's report on HID.
IsGuideNack(f, report) ==
    IF transport = "CAN"
    THEN f.pgn = PGN_ACKNOWLEDGEMENT /\ f.sa = DevAddr
         /\ f.data[1] = ACK_NACK /\ f.data[2] = GUIDE_SET
    ELSE f.data[1] = GUIDE_ERROR /\ f.data[2] = report

StatusOf(first) ==
    CASE first = "echo" -> "SUCCESS"
      [] first = "nack" -> "NACK"
      [] OTHER -> "ERROR"

ScreenEchoes ==
    {i \in 1..Len(enqueued) :
        IsGuideFrame(enqueued[i], GUIDE_SCREEN) /\ enqueued[i].data[2] = screen_id}
ScreenNacks == {i \in 1..Len(enqueued) : IsGuideNack(enqueued[i], GUIDE_SCREEN)}

\* C18: set_screen(id) returns SUCCESS iff the device echoes a screen report
\* with the same id within the timeout and NACK iff the device refuses with
\* a GUIDE error report (HID) or a NACK ack (CAN): the first of these two
\* kinds of frame decides, other frames that arrive before it do not change
\* the result, and with neither the result is ERROR; for every id, 0 too.
C18_SetScreenResult ==
    (guide_op = "set_screen" /\ pc = "done")
        => guide_ret = StatusOf(FirstAnswer(enqueued, ScreenEchoes, ScreenNacks))

VarEchoes ==
    {i \in 1..Len(enqueued) :
        /\ \E c \in {GUIDE_VARIABLE, GUIDE_INT_VARIABLE, GUIDE_STRING_VARIABLE} :
              IsGuideFrame(enqueued[i], c)
        /\ enqueued[i].data[2] = screen_id
        /\ enqueued[i].data[3] = var_id}
VarNacks == {i \in 1..Len(enqueued) : IsGuideNack(enqueued[i], GUIDE_VARIABLE)}

\* C19: set_var(screen, var, data) returns SUCCESS iff an echoed variable
\* report or an int or string variable notification for the same (screen,
\* var) arrives within the timeout and NACK iff the device refuses with a
\* NACK: the first of these frames decides, frames for other variables or
\* other commands that arrive before it do not make the result ERROR.
C19_SetVarResult ==
    (guide_op = "set_var" /\ pc = "done")
        => guide_ret = StatusOf(FirstAnswer(enqueued, VarEchoes, VarNacks))

\* ---- claims on update with an unknown extension (Spec)
\* C20: update with a file whose extension is neither .zip nor .tepkg is
\* rejected on both transports: progress_cb(UPDATE_REJECTED) is called,
\* ERROR is returned and no LIVE_UPDATE command is sent.
C20_UnknownExtensionRejected ==
    (op = "update" /\ Done /\ from_filename(file_ext) = 0 - 1)
        => /\ "UPDATE_REJECTED" \in cb_seen
           /\ ret = "ERROR"
           /\ ~Sent("LIVE_UPDATE")

\* ---- claims on the callbacks and the file of update (Spec)
\* The states update announces at the head of the pass of its loop that
\* follows the transition, if the deadlines leave it one.
AnnouncedNextPass == {"UPDATE_REQUEST", "UPDATE_CONFIRMATION"}

\* C21: progress_cb is called with the new state on every state transition
\* of update, the transitions into UPDATING, UPLOAD_ERROR, SUCCESS and ERROR
\* included: the state update is in has been passed to progress_cb, or it is
\* one that the next pass of the loop begins by passing.
C21_EveryTransitionAnnounced ==
    op = "update"
        => update_state \in cb_seen \cup AnnouncedNextPass

\* C22: during the upload of update the completed value passed to
\* successive progress_cb calls never decreases, and it never exceeds the
\* total passed with it, the size of the file.
C22_CompletedMonotonic ==
    op = "update" => obs.cb_order /\ obs.completed <= file_size

\* The last chunk of a file of more than one chunk has been announced.
C22_Witness ==
    /\ op = "update"
    /\ obs.completed = file_size
    /\ file_size > ChunkSize(transport)
    /\ ~file_stream

\* C23: the firmware file is opened only after the device has accepted the
\* update, and it is closed by the time update returns, on every exit path:
\* upload EOF, a short send, an upload error reported by the device, a
\* transition to UPDATING before EOF, the expiry of a deadline.
C23_FileClosedOnReturn ==
    op = "update"
        => /\ file_stream => obs.accepted
           /\ pc # "update" => ~file_stream

\* ---- claims on the session after a deadline (Spec)
\* C24: when the deadline of an operation expires (the wait for the reboot of
\* restart on either transport, update), the operation returns its timeout
\* status and leaves the session usable: the transport is still connected
\* and the background receiver still runs.
C24_TimeoutLeavesSessionUsable ==
    (/\ Done
     /\ \/ ret = "TIMEOUT"
        \/ ret = "RESTART_TIMEOUT" /\ clock >= timeout_end)
        => hid_connected

\* ------------------------------------------ the receiver thread, disconnect
\* How many frames the receiver puts while the thread is followed, and how
\* many operations are called after the I/O error.
MaxPuts == 1
MaxOps == 2

InitThread ==
    /\ AwaitIdle /\ SecretIdle /\ ScanIdle /\ SendIdle /\ GuideIdle /\ ThreadIdle
    /\ NameIdle /\ CommandIdle /\ PgnIdle /\ BusIdle
    /\ transport \in {"CAN", "HID"}
    /\ clock = 0
    /\ pc = "idle"
    /\ time_now = 0 /\ timeout_end = 0 /\ timestamp = 0
    /\ IdleRest

\* The condition of the receiver's loop: while state != STOPPED (HID, line
\* 122), while state != CLOSE (CAN, line 69).
loops_forever(state) == TRUE
keeps_running(state) == state # "STOPPED"

\* _recv_rpt / _recv_msg, the test of the loop
ReceiverTest ==
    /\ recv_thread = "test"
    /\ recv_thread' = IF keeps_running(recv_thread_state) THEN "read" ELSE "exited"
    /\ UNCHANGED <<machineVars, awaitVars, threadOthers, recv_thread_state,
                   io_error, endpoints, disc_pc, io_ops, io_rets>>

\* The body of the loop on a working transport: the read (timeout_ms=100) or
\* the poll (0.1) returns with a frame, which is stamped and put, or without.
ReceiverRead ==
    /\ recv_thread = "read" /\ ~io_error
    /\ \/ /\ Len(enqueued) < MaxPuts
          /\ \E f \in AwaitFrames(transport) :
               LET msg == Stamped(f, clock, Len(enqueued) + 1)
               IN  /\ recv_queue' = Append(recv_queue, msg)
                   /\ enqueued' = Append(enqueued, msg)
       \/ UNCHANGED <<recv_queue, enqueued>>
    /\ recv_thread' = "test"
    /\ UNCHANGED <<machineVars, delivered, expected_res, res, threadOthers,
                   recv_thread_state, io_error, endpoints, disc_pc, io_ops,
                   io_rets>>

\* The transport fails for good (the device is unplugged, the bus goes down).
IoError ==
    /\ ~io_error /\ disc_pc = "-"
    /\ io_error' = TRUE
    /\ UNCHANGED <<machineVars, awaitVars, threadOthers, recv_thread,
                   recv_thread_state, endpoints, disc_pc, io_ops, io_rets>>

\* The read raises OSError: _recv_rpt logs it and breaks (lines 131-133);
\* the Windows _recv_rpt and _recv_msg do not catch it and the thread ends
\* with it. The state attribute is left as it is.
ReceiverFails ==
    /\ recv_thread = "read" /\ io_error
    /\ recv_thread' = "exited"
    /\ UNCHANGED <<machineVars, awaitVars, threadOthers, recv_thread_state,
                   io_error, endpoints, disc_pc, io_ops, io_rets>>

\* disconnect: the stop request (line 77 HID, 50 CAN)
DisconnectCall ==
    /\ pc = "idle" /\ disc_pc = "-"
    /\ recv_thread_state' = "STOPPED"
    /\ disc_pc' = "join"
    /\ UNCHANGED <<machineVars, awaitVars, threadOthers, recv_thread, io_error,
                   endpoints, io_ops, io_rets>>

\* disconnect: _recv_thread.join() returns once the thread has ended
DisconnectJoin ==
    /\ disc_pc = "join" /\ recv_thread = "exited"
    /\ disc_pc' = "close"
    /\ UNCHANGED <<machineVars, awaitVars, threadOthers, recv_thread,
                   recv_thread_state, io_error, endpoints, io_ops, io_rets>>

\* disconnect: the close of every endpoint, and the return (of None)
DisconnectClose ==
    /\ disc_pc = "close"
    /\ endpoints' = "closed"
    /\ disc_pc' = "returned"
    /\ io_rets' = io_rets \cup
                  {[op |-> "disconnect", write |-> "-", status |-> "None"]}
    /\ UNCHANGED <<machineVars, awaitVars, threadOthers, recv_thread,
                   recv_thread_state, io_error, io_ops>>

\* The session after the error: the receiver has ended, what it had put has
\* been read, disconnect has not been called.
IoFailed ==
    /\ io_error /\ recv_thread = "exited" /\ recv_queue = <<>>
    /\ disc_pc = "-"

\* What a write on the failed transport does: it returns having sent
\* nothing, or it raises OSError.
WriteOutcomes == {"failed", "OSError"}

FixedOps == {"set_brightness", "authenticate", "restart", "refresh_info"}

\* What an operation returns when await_res returns None: set_brightness,
\* authenticate, restart, and refresh_info by refresh_hardware_info.
status_without_answer(o) ==
    CASE o = "set_brightness" -> "ERROR"
      [] o = "authenticate" -> "ERROR"
      [] o = "restart" -> "ERROR"
      [] o = "refresh_info" -> "ERROR"

\* How long the operation blocks on the empty queue: await_res with its
\* timeout of 1 s, of 5 s in the HID restart, once for each of the requests
\* of refresh_info (the HID refresh_version_info makes none).
blocks_for(tr, o) ==
    CASE o = "restart" /\ tr = "HID" -> 5
      [] o = "refresh_info" -> IF tr = "HID" THEN 2 ELSE 3
      [] OTHER -> 1

\* set_brightness, authenticate, restart or refresh_info on the session
\* whose transport has failed
CallAfterError ==
    /\ pc = "idle" /\ IoFailed /\ io_ops < MaxOps
    /\ \E o \in FixedOps, w \in WriteOutcomes :
         LET status == IF w = "OSError" THEN "EXCEPTION"
                       ELSE status_without_answer(o)
         IN  /\ op' = o
             /\ ret' = status
             /\ clock' = IF w = "OSError" THEN clock
                         ELSE clock + blocks_for(transport, o)
             /\ io_rets' = io_rets \cup
                           {[op |-> o, write |-> w, status |-> status]}
    /\ io_ops' = io_ops + 1
    /\ UNCHANGED <<transport, address, name, hid_connected, file_ext,
                   file_size, pc, to_utility, wait, authenticate,
                   update_state, update_status, file_stream, file_pos,
                   upload_progress, time_now, task_timeout, update_timeout,
                   timeout_end, timestamp, hp_devs, cb_seen, sent,
                   restart_status, auth_status, obs>>
    /\ UNCHANGED <<awaitVars, threadOthers, recv_thread, recv_thread_state,
                   io_error, endpoints, disc_pc>>

\* update on the session whose transport has failed
CallUpdateAfterError ==
    /\ IoFailed /\ io_ops < MaxOps
    /\ CallUpdate

\* One pass of update's loop: recv_msg / recv_rpt returns None.
UpdatePassAfterError ==
    /\ pc = "update"
    /\ \E t \in UpdateReadings :
         AfterPass(None, t, TRUE,
                   IF transport = "CAN" THEN CanPass(None, t, TRUE)
                   ELSE HidPass(None, t, TRUE))

\* The write of the LIVE_UPDATE request raises.
UpdateWriteRaises ==
    /\ pc = "update" /\ update_state = "UPDATE_REQUEST"
    /\ pc' = "done"
    /\ ret' = "EXCEPTION"
    /\ UNCHANGED <<transport, clock, address, name, hid_connected, file_ext,
                   file_size, op, to_utility, wait, authenticate,
                   update_state, update_status, file_stream, file_pos,
                   upload_progress, time_now, task_timeout, update_timeout,
                   timeout_end, timestamp, hp_devs, cb_seen, sent,
                   restart_status, auth_status, obs, otherVars>>

\* update has returned or raised.
UpdateReturns ==
    /\ pc = "done" /\ op = "update"
    /\ pc' = "idle"
    /\ io_ops' = io_ops + 1
    /\ io_rets' = io_rets \cup
                  {[op |-> "update",
                    write |-> IF ret = "EXCEPTION" THEN "OSError" ELSE "failed",
                    status |-> ret]}
    /\ UNCHANGED <<transport, clock, address, name, hid_connected, file_ext,
                   file_size, op, to_utility, wait, authenticate,
                   update_state, update_status, file_stream, file_pos,
                   upload_progress, time_now, task_timeout, update_timeout,
                   timeout_end, timestamp, hp_devs, cb_seen, sent, ret,
                   restart_status, auth_status, obs>>
    /\ UNCHANGED <<awaitVars, threadOthers, recv_thread, recv_thread_state,
                   io_error, endpoints, disc_pc>>

NextThread ==
    \/ ReceiverTest
    \/ ReceiverRead
    \/ IoError
    \/ ReceiverFails
    \/ DisconnectCall
    \/ DisconnectJoin
    \/ DisconnectClose
    \/ CallAfterError
    \/ CallUpdateAfterError
    \/ UpdatePassAfterError
    \/ UpdateWriteRaises
    \/ UpdateReturns

\* The receiver is a thread of its own and its read returns within 100 ms;
\* disconnect goes on once join has returned.
SpecThread ==
    /\ InitThread /\ [][NextThread]_vars
    /\ WF_vars(ReceiverTest) /\ WF_vars(ReceiverRead) /\ WF_vars(ReceiverFails)
    /\ WF_vars(DisconnectJoin) /\ WF_vars(DisconnectClose)

\* C25: after a permanent I/O error has ended the receiver, every operation
\* whose write returned comes back with ERROR, and disconnect returns.
C25_ErrorAfterIoError ==
    \A r \in io_rets :
        r.write # "OSError"
            => r.status = IF r.op = "disconnect" THEN "None" ELSE "ERROR"


\* C26: once disconnect has been called it returns; by then the receiver
\* has seen the stop request and ended, the endpoints were closed after the
\* join and not before, and no frame is put on the queue after the return.
C26_DisconnectStopsReceiver ==
    /\ [](endpoints = "closed" => recv_thread = "exited")
    /\ [](disc_pc = "returned" => endpoints = "closed")
    /\ [][disc_pc = "returned" => enqueued' = enqueued]_vars
    /\ (disc_pc = "join" ~> disc_pc = "returned")

C26_Witness ==
    /\ disc_pc = "returned" /\ ~io_error
    /\ recv_thread = "exited" /\ enqueued # <<>>

\* ------------------------------------------------- frames no parser accepts
\* One await_res on a session whose device sends frames that none of the
\* parsers accepts: an unknown enum value, another source address, a frame
\* too short for the fields the parser reads.
OddFrames(tr) ==
    IF tr = "CAN"
    THEN {CanAuth(8 + 1), Frame(PGN_AUTHENTICATION, OtherAddr, <<AUTH_COMPLETE>>),
          Frame(PGN_AUTHENTICATION, DevAddr, <<>>),
          CanAck(8 + 1, CMD_RESTART), Frame(PGN_ACKNOWLEDGEMENT, DevAddr, <<ACK_OK>>)}
    ELSE {HidAuth(8 + 1), Frame(0, 0, <<RPT_CS_DATA_SHORT>>),
          Frame(0, 0, <<RPT_CS_DATA_SHORT, CTX_AUTH, 5>>),
          HidAck(CMD_RESTART, 8 + 1), Frame(0, 0, <<RPT_COMMAND_ACK>>)}

\* _recv_msg / _recv_rpt, one such frame
ReceiverPutOdd ==
    /\ Len(enqueued) < MaxPuts + 1
    /\ \E f \in OddFrames(transport) :
         LET msg == Stamped(f, clock, Len(enqueued) + 1)
         IN  /\ recv_queue' = Append(recv_queue, msg)
             /\ enqueued' = Append(enqueued, msg)
    /\ UNCHANGED <<transport, clock, pc, time_now, timeout_end, timestamp,
                   delivered, expected_res, res, idleVars, awaitOthers>>

NextOdd == ReceiverPutOdd \/ Tick \/ CallAwait \/ AwaitIter

SpecOdd == InitAwait /\ [][NextOdd]_vars

\* C27: a frame none of the expected parsers accepts does not make await_res
\* raise, and with nothing but such frames await_res returns None, at its
\* deadline.
C27_UnacceptedFrameDropped ==
    expected_res # <<>>
        => /\ pc # "raised"
           /\ pc = "returned" => res = None /\ time_now >= timeout_end
\* ------------------------------------------------------------- J1939Name
\* How many bits of the 64 are set in the NAME values followed.
MaxBits == 2

\* The masks and shifts of the fields (j1939_name.py 5-30)
in_mask == 2097151
in_shift == 0
mc_mask == 2047
mc_shift == 21
ecu_inst_mask == 7
ecu_inst_shift == 32
fn_inst_mask == 31
fn_inst_shift == 35
fn_mask == 255
fn_shift == 40
vs_mask == 127
vs_shift == 49
vs_inst_mask == 15
vs_inst_shift == 56
ig_mask == 7
ig_shift == 60
aac_mask == 1
aac_shift == 63

\* x & y and x | y
BitAnd(x, y) == [i \in 1..Longer(x, y) |-> Bit(x, i) * Bit(y, i)]
BitOr(x, y) ==
    [i \in 1..Longer(x, y) |-> IF Bit(x, i) + Bit(y, i) > 0 THEN 1 ELSE 0]
\* x == y of two integers
SameInt(x, y) == \A i \in 1..Longer(x, y) : Bit(x, i) = Bit(y, i)

\* (self.v >> shift) & mask
field_unshifted(v, shift, mask) == BitAnd(v, BitsOf(mask))
field(v, shift, mask) == BitAnd(ShiftRight(v, shift), BitsOf(mask))

identity_number(v) == field(v, in_shift, in_mask)
manufacturer_code(v) == field(v, mc_shift, mc_mask)
ecu_instance(v) == field(v, ecu_inst_shift, ecu_inst_mask)
function_instance(v) == field(v, fn_inst_shift, fn_inst_mask)
function(v) == field(v, fn_shift, fn_mask)
vehicle_system(v) == field(v, vs_shift, vs_mask)
vehicle_system_instance(v) == field(v, vs_inst_shift, vs_inst_mask)
industry_group(v) == field(v, ig_shift, ig_mask)
arbitrary_address_capable(v) == field(v, aac_shift, aac_mask)

\* (c & mask) << shift
placed(c, mask, shift) == ShiftLeft(BitAnd(c, BitsOf(mask)), shift)

\* J1939Name.from_comps
from_comps(inum, mc, ecu_inst, fn_inst, fn, vs, vs_inst, ig, aac) ==
    BitOr(placed(inum, in_mask, in_shift),
    BitOr(placed(mc, mc_mask, mc_shift),
    BitOr(placed(ecu_inst, ecu_inst_mask, ecu_inst_shift),
    BitOr(placed(fn_inst, fn_inst_mask, fn_inst_shift),
    BitOr(placed(fn, fn_mask, fn_shift),
    BitOr(placed(vs, vs_mask, vs_shift),
    BitOr(placed(vs_inst, vs_inst_mask, vs_inst_shift),
    BitOr(placed(ig, ig_mask, ig_shift),
          placed(aac, aac_mask, aac_shift)))))))))

\* J1939Name.to_bytes: self.v.to_bytes(8, "little")
name_to_bytes(v) ==
    IF \E i \in 65..Len(v) : v[i] = 1 THEN OverflowError
    ELSE [k \in 1..8 |->
            Bit(v, 8 * k - 7) + 2 * Bit(v, 8 * k - 6) + 4 * Bit(v, 8 * k - 5)
            + 8 * Bit(v, 8 * k - 4) + 16 * Bit(v, 8 * k - 3)
            + 32 * Bit(v, 8 * k - 2) + 64 * Bit(v, 8 * k - 1)
            + 128 * Bit(v, 8 * k)]

\* J1939Name.from_bytes: int.from_bytes(bytes[0:8], "little", signed=False)
name_from_bytes(bs) == from_bytes(Slice(bs, 0, 8))

\* The sets of at most k of the 64 bit positions
RECURSIVE BitSets(_)
BitSets(k) ==
    IF k = 0 THEN {{}}
    ELSE BitSets(k - 1) \cup {s \cup {a} : s \in BitSets(k - 1), a \in 1..64}

\* The NAME values followed: those with the bits of such a set set, as
\* Python holds them (no leading zeros), and the value with all 64 set.
Highest(s) == CHOOSE a \in s : \A b \in s : b <= a
ValueOf(s) ==
    IF s = {} THEN <<>>
    ELSE [i \in 1..Highest(s) |-> IF i \in s THEN 1 ELSE 0]
NameValues == {ValueOf(s) : s \in BitSets(MaxBits)} \cup {[i \in 1..64 |-> 1]}

InitName ==
    /\ AwaitIdle /\ SecretIdle /\ ScanIdle /\ SendIdle /\ GuideIdle /\ ThreadIdle
    /\ CommandIdle /\ PgnIdle /\ BusIdle
    /\ transport = "CAN"
    /\ clock = 0
    /\ pc = "idle"
    /\ time_now = 0 /\ timeout_end = 0 /\ timestamp = 0
    /\ IdleRest
    /\ \E v \in NameValues :
         nm = [v |-> v, step |-> 0, bytes |-> <<>>, back |-> <<>>,
               comps |-> <<>>, rebuilt |-> <<>>]

nameRest == <<machineVars, awaitVars, secretVars, scanVars, sendVars,
              guideVars, threadVars, commandVars, pgnVars,
              busVars>>

\* J1939Name(v).to_bytes()
NameToBytes ==
    /\ nm.step = 0
    /\ nm' = [nm EXCEPT !.step = 1, !.bytes = name_to_bytes(nm.v)]
    /\ UNCHANGED nameRest

\* J1939Name.from_bytes of those bytes
NameFromBytes ==
    /\ nm.step = 1
    /\ nm' = [nm EXCEPT !.step = 2, !.back = name_from_bytes(nm.bytes)]
    /\ UNCHANGED nameRest

\* The nine accessors of J1939Name(v)
NameAccessors ==
    /\ nm.step = 2
    /\ nm' = [nm EXCEPT !.step = 3,
                        !.comps = <<identity_number(nm.v), manufacturer_code(nm.v),
                                    ecu_instance(nm.v), function_instance(nm.v),
                                    function(nm.v), vehicle_system(nm.v),
                                    vehicle_system_instance(nm.v),
                                    industry_group(nm.v),
                                    arbitrary_address_capable(nm.v)>>]
    /\ UNCHANGED nameRest

\* J1939Name.from_comps of those components
NameFromComps ==
    /\ nm.step = 3
    /\ nm' = [nm EXCEPT !.step = 4,
                        !.rebuilt = from_comps(nm.comps[1], nm.comps[2],
                                               nm.comps[3], nm.comps[4],
                                               nm.comps[5], nm.comps[6],
                                               nm.comps[7], nm.comps[8],
                                               nm.comps[9])]
    /\ UNCHANGED nameRest

NextName == NameToBytes \/ NameFromBytes \/ NameAccessors \/ NameFromComps

SpecName == InitName /\ [][NextName]_vars

\* The bit of a NAME that no field covers: bit 48, between function (40-47)
\* and vehicle_system (49-55).
Uncovered(v) == Bit(v, 48 + 1) = 1
Cleared(v) == [i \in 1..Len(v) |-> IF i = 48 + 1 THEN 0 ELSE v[i]]

\* C28 (as stated): the bytes of every 64-bit NAME read back give the NAME,
\* and from_comps of its nine accessors gives the NAME.
C28_NameRoundTrips ==
    /\ nm.step >= 2 => SameInt(nm.back, nm.v)
    /\ nm.step = 4 => SameInt(nm.rebuilt, nm.v)

\* C28 (as amended): the bytes of every 64-bit NAME read back give the NAME;
\* from_comps of its nine accessors gives the NAME with bit 48 cleared,
\* which is the NAME itself when that bit is 0.
C28_NameRoundTripsAmended ==
    /\ nm.step >= 2 => SameInt(nm.back, nm.v)
    /\ nm.step = 4 => SameInt(nm.rebuilt, Cleared(nm.v))
    /\ (nm.step = 4 /\ ~Uncovered(nm.v)) => SameInt(nm.rebuilt, nm.v)

C28_Witness ==
    /\ nm.step = 4
    /\ Bit(nm.v, 47 + 1) = 1 /\ Bit(nm.v, 49 + 1) = 1
    /\ SameInt(nm.rebuilt, nm.v) /\ SameInt(nm.back, nm.v)

\* -------------------------------------------------------------- send_command
\* How many commands the session sends while they are followed.
MaxCommands == 2

\* Commands (touch_encoder.py, j1939_guide.py) and PGNs
CMD_RIE == 8
CMD_BRIGHTNESS == 128
CMD_GET_HARDWARE_ID == 194
CMD_GET_PROJECT_INFO == 195
CMD_CONFIGURE_NAME == 225
GUIDE_GET == 10
PGN_CONFIG == 217
PGN_PROPRIETARY_A == 61184
PGN_RIE == 1638158

\* v.to_bytes(3, 'little'), of a PGN and of an integer below 2^24
to_bytes3(v) == <<v % 256, (v \div 256) % 256, (v \div 65536) % 256>>

\* The list each operation gives to send_command. p, q and r are the
\* operation's arguments: the clearance; enable and the pgn (0: None); the
\* selector and the value; the level and store; to_utility; the component
\* type and the file size; the response pgn; the screen and variable ids.
command(o, p, q) ==
    CASE o = "authenticate" ->
            <<CMD_ST_AUTH, p>> \o to_bytes3(PGN_AUTHENTICATION)
      [] o = "set_raw_input_event" ->
            <<CMD_RIE, p>> \o (IF q = 0 THEN <<0, 0, 0>> ELSE to_bytes3(q))
      [] o = "configure_j1939_name" ->
            <<CMD_CONFIGURE_NAME, p>> \o to_bytes3(q)
      [] o = "set_brightness" ->
            <<CMD_BRIGHTNESS, 0, (p % 128) + 128 * q, 0, 0, 0, 0, 0>>
      [] o = "restart" ->
            <<IF p = 1 THEN CMD_RESTART_UTILITY_APP ELSE CMD_RESTART>> \o Zeros(7)
      [] o = "refresh_hardware_info" -> <<CMD_GET_HARDWARE_ID>> \o Zeros(7)
      [] o = "refresh_project_info" -> <<CMD_GET_PROJECT_INFO>> \o Zeros(7)
      [] o = "update" ->
            <<CMD_LIVE_UPDATE, p>> \o to_bytes3(q) \o to_bytes3(PGN_LIVE_UPDATE)
      [] o = "set_response_pgn" -> <<PGN_CONFIG>> \o to_bytes3(p) \o Zeros(4)
      [] o = "get_screen" -> <<GUIDE_GET, GUIDE_SCREEN>> \o Zeros(6)
      [] o = "get_var" -> <<GUIDE_GET, GUIDE_VARIABLE, p, q, 0, 0, 0, 0>>

\* The arguments the operations are called with.
CommandCalls ==
    {<<"authenticate", c, 0>> : c \in {CLR_SERVICE_TOOL, CLR_INVALID}}
        \cup {<<"set_raw_input_event", e, g>> : e \in {0, 1}, g \in {0, PGN_RIE}}
        \cup {<<"configure_j1939_name", sel, v>> : sel \in {1, 7}, v \in {0, 5}}
        \cup {<<"set_brightness", l, st>> : l \in {0, 100, 200}, st \in {0, 1}}
        \cup {<<"restart", u, 0>> : u \in {0, 1}}
        \cup {<<"refresh_hardware_info", 0, 0>>, <<"refresh_project_info", 0, 0>>}
        \cup {<<"update", ty, sz>> : ty \in {CT_BOOTLOADER, CT_FIRMWARE, CT_PROJECT},
                                      sz \in {1, 70000}}
        \cup {<<"set_response_pgn", PGN_GUIDE, 0>>}
        \cup {<<"get_screen", 0, 0>>}
        \cup {<<"get_var", sid, vid>> : sid \in {1, 2}, vid \in {1, 2}}

InitCommand ==
    /\ AwaitIdle /\ SecretIdle /\ ScanIdle /\ SendIdle /\ GuideIdle /\ ThreadIdle
    /\ NameIdle /\ CommandIdle /\ PgnIdle /\ BusIdle
    /\ transport = "CAN"
    /\ clock = 0
    /\ pc = "idle"
    /\ time_now = 0 /\ timeout_end = 0 /\ timestamp = 0
    /\ IdleRest

\* J1939TouchEncoder.send_command(command), called by one of the operations:
\* self.ca.send_to(PROPRIETARY_A, self.address, bytes(command))
SendCommand ==
    /\ Len(cmd_sent) < MaxCommands
    /\ \E c \in CommandCalls :
         cmd_sent' = Append(cmd_sent,
                            [op |-> c[1], pgn |-> PGN_PROPRIETARY_A,
                             da |-> address, data |-> command(c[1], c[2], c[3])])
    /\ UNCHANGED <<machineVars, awaitVars, secretVars, scanVars, sendVars,
                   guideVars, threadVars, nameVars, pgnVars,
                   busVars>>

\* The restart of the device gives it another address (restart, line 200).
Readdress ==
    /\ address = DevAddr
    /\ address' = OtherAddr
    /\ UNCHANGED <<transport, clock, name, hid_connected, file_ext,
                   file_size, pc, op, to_utility, wait, authenticate,
                   update_state, update_status, file_stream, file_pos,
                   upload_progress, time_now, task_timeout, update_timeout,
                   timeout_end, timestamp, hp_devs, cb_seen, sent, ret,
                   restart_status, auth_status, obs, otherVars>>

NextCommand == SendCommand \/ Readdress

SpecCommand == InitCommand /\ [][NextCommand]_vars

\* C29: every command of these operations goes out as PROPRIETARY_A with a
\* payload of exactly 8 bytes (to the address the session holds for the
\* device when it is sent).
C29_CommandsAreEightBytes ==
    \A i \in 1..Len(cmd_sent) :
        /\ cmd_sent[i].pgn = PGN_PROPRIETARY_A
        /\ cmd_sent[i].da \in {DevAddr, OtherAddr}
        /\ Len(cmd_sent[i].data) = 8


\* The state the claim gives for an ack of LIVE_UPDATE with status s.
Decided(tr, s) ==
    CASE s = AcceptStatus(tr) -> "FILE_UPLOAD"
      [] s = 2 -> "UPDATE_REJECTED"
      [] s = 3 -> "DEVICE_BUSY"
      [] OTHER -> "ERROR"

\* C30: a pass of update that leaves UPDATE_CONFIRMATION on an ack of
\* LIVE_UPDATE read before the deadlines goes to the state the status of the
\* ack decides (accept: FILE_UPLOAD with the file open; 2: UPDATE_REJECTED;
\* 3: DEVICE_BUSY; any other: ERROR) and sets task_timeout to update_timeout.
C30_AckDecides ==
    [][(/\ op = "update" /\ pc = "update"
        /\ update_state = "UPDATE_CONFIRMATION"
        /\ update_state' # "UPDATE_CONFIRMATION"
        /\ time_now' < task_timeout /\ time_now' < update_timeout)
          => /\ update_state' = Decided(transport, obs'.ack_status)
             /\ task_timeout' = update_timeout
             /\ file_stream' = (obs'.ack_status = AcceptStatus(transport))]_vars

\* C31 (as stated): once the transport has reported a byte count other than
\* the length of the chunk, update is in UPLOAD_ERROR, has sent no restart
\* and returns ERROR.
C31_ShortSendGivesError ==
    (op = "update" /\ obs.short)
        => /\ Done /\ update_state = "UPLOAD_ERROR"
           /\ ~RestartSent
           /\ ret = "ERROR"

\* C31 (as amended): once the transport has reported a byte count other
\* than the length of the chunk, update has returned in UPLOAD_ERROR without
\* counting the chunk, has sent no restart, and has returned ERROR, or
\* TIMEOUT when the time read in that pass was past a deadline.
C31_ShortSendGivesErrorOrTimeout ==
    (op = "update" /\ obs.short)
        => /\ Done /\ update_state = "UPLOAD_ERROR"
           /\ upload_progress < file_pos
           /\ ~RestartSent
           /\ ret = IF time_now > task_timeout \/ time_now > update_timeout
                    THEN "TIMEOUT" ELSE "ERROR"

C31_Witness ==
    /\ op = "update" /\ obs.short /\ Done /\ ret = "ERROR"
    /\ upload_progress > 0

\* ------------------------------------------- restart and its restart ack
\* One session with its background receiver, and restart() with its default
\* arguments up to the return of the await_res that waits for the ack.  The
\* receiver puts frames at any time: before the command is sent, between
\* the send and the call of await_res, and while await_res runs.

\* TouchEncoder.restart: the RESTART command is sent.
RestartSendCommand ==
    /\ pc = "idle"
    /\ op' = "restart"
    /\ sent' = Append(sent, RestartCommand(to_utility))
    /\ obs' = [obs EXCEPT !.queued = Len(enqueued)]
    /\ pc' = "restart_cmd"
    /\ UNCHANGED <<transport, clock, time_now, timeout_end, timestamp, awaitVars,
                   address, name, hid_connected, file_ext, file_size,
                   restartArgs, updateVars, hp_devs, cb_seen, ret,
                   restart_status, auth_status, awaitOthers>>

\* J1939TouchEncoder.restart line 187, HIDTouchEncoder.restart line 174:
\* await_res is called, on CAN with timestamp=time.time() read now, on HID
\* without a timestamp.
RestartAwaitRes ==
    /\ pc = "restart_cmd"
    /\ expected_res' = IF transport = "CAN" THEN <<"RestartAckMsg">>
                       ELSE <<"AckReport">>
    /\ timestamp' = IF transport = "CAN" THEN clock ELSE 0
    /\ time_now' = clock
    /\ timeout_end' = clock + (IF transport = "CAN" THEN 1 ELSE 5)
    /\ res' = None
    /\ pc' = "await_res"
    /\ UNCHANGED <<transport, clock, recv_queue, enqueued, delivered, idleVars,
                   awaitOthers>>

NextRestartAck ==
    ReceiverPut \/ Tick \/ RestartSendCommand \/ RestartAwaitRes \/ AwaitIter

SpecRestartAck == InitAwait /\ [][NextRestartAck]_vars

\* C32: the frame restart takes as its restart ack was put into the FIFO
\* after the restart command was sent.
C32_RestartAckIsFresh ==
    (op = "restart" /\ pc = "returned" /\ res # None) => res.n > obs.queued

\* C34: on CAN, the timestamp restart passes to await_res is not later than
\* the timestamp the receiver gave to an OK restart ack it put after the
\* command was sent.
C34_OwnAckNotStale ==
    (transport = "CAN" /\ op = "restart" /\ pc \in {"await_res", "returned"})
        => \A i \in 1..Len(enqueued) :
              (/\ i > obs.queued
               /\ RestartAckMsg(enqueued[i], address)
               /\ AckCodeOf("CAN", enqueued[i]) = "OK")
                  => timestamp <= enqueued[i].timestamp

\* -------------------------------------- get_var and set_response_pgn (CAN)
\* One CAN session with its background receiver, and one call of get_var or
\* of set_response_pgn.

\* No pgn argument (None).
NoPgn == 0 - 1
\* The arguments set_response_pgn is called with.
PgnArgs == {NoPgn, PGN_GUIDE, PGN_PROPRIETARY_A}

\* What the device sends while the operation waits: acks of PGN_CONFIG and
\* of another command, and VARIABLE responses of every screen and variable.
PgnFrames ==
    {CanAck(ACK_OK, PGN_CONFIG), CanAck(ACK_NACK, PGN_CONFIG),
     CanAck(ACK_OK, CMD_RESTART)}
        \cup {GuideCan(GUIDE_VARIABLE, s, v) :
                 s \in 0..(MaxId + 1), v \in 0..(MaxId + 1)}

InitPgn == InitGuide /\ transport = "CAN"

\* The variables of the session no GUIDE operation on CAN touches.
pgnOthers == <<secretVars, scanVars, sendVars, threadVars, nameVars,
               commandVars, busVars>>

\* _recv_msg, one frame of the device before the deadline of the operation
\* that waits.
ReceiverPutPgn ==
    /\ pc = "await_res"
    /\ clock < timeout_end
    /\ Len(enqueued) < MaxFrames
    /\ \E f \in PgnFrames :
         LET msg == Stamped(f, clock, Len(enqueued) + 1)
         IN  /\ recv_queue' = Append(recv_queue, msg)
             /\ enqueued' = Append(enqueued, msg)
    /\ UNCHANGED <<transport, clock, pc, time_now, timeout_end, timestamp,
                   delivered, expected_res, res, idleVars, awaitOthers>>

\* "if pgn:" of a J1939PGN, which defines neither __bool__ nor __len__
pgn_given(pgn) == pgn # NoPgn
\* "if pgn: self.response_pgn = pgn", before the command is sent
pgn_assigned(old, pgn) == IF pgn_given(pgn) THEN pgn ELSE old

\* set_response_pgn(pgn), up to the loop of await_res.
CallSetResponsePgn ==
    /\ pc = "idle" /\ guide_op = "-"
    /\ clock + 2 <= MaxTime
    /\ \E pgn \in PgnArgs :
         /\ response_pgn' = pgn_assigned(response_pgn, pgn)
         /\ guide_cmd' = <<PGN_CONFIG>> \o to_bytes3(response_pgn') \o Zeros(4)
    /\ obs' = [obs EXCEPT !.pgn_before = response_pgn]
    /\ guide_op' = "set_response_pgn"
    /\ CallAwaitRes(<<"AckMsg">>)
    /\ UNCHANGED <<transport, clock, recv_queue, enqueued, delivered,
                   screen_id, var_id, guide_ret, address, name, hid_connected,
                   file_ext, file_size, op, restartArgs, update_state,
                   update_status, file_stream, file_pos, upload_progress,
                   task_timeout, update_timeout, hp_devs, cb_seen, sent, ret,
                   restart_status, auth_status, pgnOthers>>

\* set_response_pgn after await_res.
set_response_pgn_status(r, f) ==
    IF r # None /\ f.data[1] = ACK_NACK THEN "NACK"
    ELSE IF r # None /\ f.data[1] = ACK_OK /\ f.data[2] = PGN_CONFIG
         THEN "SUCCESS"
         ELSE "ERROR"

\* set_response_pgn from the return of await_res to its own.
SetResponsePgnReturn ==
    /\ pc = "returned" /\ guide_op = "set_response_pgn"
    /\ guide_ret' = set_response_pgn_status(res, Answer)
    /\ pc' = "done"
    /\ UNCHANGED <<transport, clock, time_now, timeout_end, timestamp,
                   awaitVars, guide_op, screen_id, var_id, guide_cmd,
                   idleVars, guideOthers>>

\* get_var(screen_id, var_id), up to the loop of await_res.
CallGetVar ==
    /\ pc = "idle" /\ guide_op = "-"
    /\ clock + 2 <= MaxTime
    /\ \E sid \in 0..MaxId, vid \in 0..MaxId :
         /\ screen_id' = sid
         /\ var_id' = vid
         /\ guide_cmd' = <<GUIDE_GET, GUIDE_VARIABLE, sid, vid>> \o Zeros(4)
    /\ guide_op' = "get_var"
    /\ CallAwaitRes(<<"var_msg">>)
    /\ UNCHANGED <<transport, clock, recv_queue, enqueued, delivered,
                   guide_ret, idleVars, guideOthers>>

\* get_var after await_res: msg.variable_val, or Status.ERROR.
get_var_result(r, f) ==
    IF r # None
    THEN IF Len(f.data) > 2 THEN "VariableData" ELSE "None"
    ELSE "ERROR"

\* get_var from the return of await_res to its own.
GetVarReturn ==
    /\ pc = "returned" /\ guide_op = "get_var"
    /\ guide_ret' = get_var_result(res, Answer)
    /\ pc' = "done"
    /\ UNCHANGED <<transport, clock, time_now, timeout_end, timestamp,
                   awaitVars, guide_op, screen_id, var_id, guide_cmd,
                   idleVars, guideOthers>>

NextPgn ==
    \/ ReceiverPutPgn \/ Tick \/ AwaitIter
    \/ CallSetResponsePgn \/ SetResponsePgnReturn
    \/ CallGetVar \/ GetVarReturn

SpecPgn == InitPgn /\ [][NextPgn]_vars

\* C33: the value get_var returns on CAN is that of a response whose screen
\* ID and variable ID are the requested ones.
C33_GetVarReturnsRequested ==
    (guide_op = "get_var" /\ pc = "done" /\ guide_ret = "VariableData")
        => Answer.data[2] = screen_id /\ Answer.data[3] = var_id

\* C38: when set_response_pgn returns another status than SUCCESS,
\* response_pgn is what it was when set_response_pgn was called.
C38_PgnKeptOnFailure ==
    (guide_op = "set_response_pgn" /\ pc = "done" /\ guide_ret # "SUCCESS")
        => response_pgn = obs.pgn_before

\* C35: whenever update is in UPDATING or in SUCCESS, the bytes it has sent
\* are the whole file.
C35_UploadedBeforeUpdating ==
    (op = "update" /\ update_state \in {"UPDATING", "SUCCESS"})
        => upload_progress = file_size

\* C36: update has sent a restart command only if the status it returns is
\* SUCCESS or SUCCESS_RESTART.
C36_RebootOnlyAfterSuccess ==
    (op = "update" /\ RestartSent)
        => update_status \in {US_SUCCESS, US_SUCCESS_RESTART}

\* ------------------------------------ several CAN sessions restart at once
\* CLICore.restart starts one thread per selected device, each calling
\* restart(wait=True) of its session.  Every session has its own controller
\* application and FIFO (j1939_utility.py, line 63).  A device acknowledges
\* the command to the session that sent it, reboots, and broadcasts its
\* address claim, which the receiver of every session puts into its FIFO.

Sessions == {1, 2}
\* The device session i was created for: its address and NAME at discovery.
DeviceOf(i) ==
    IF i = 1 THEN [address |-> DevAddr, name |-> DevName]
    ELSE [address |-> OtherAddr, name |-> OtherName]

InitBus ==
    /\ AwaitIdle /\ SecretIdle /\ ScanIdle /\ SendIdle /\ GuideIdle /\ ThreadIdle
    /\ NameIdle /\ CommandIdle /\ PgnIdle
    /\ transport = "CAN"
    /\ clock = 0
    /\ pc = "idle"
    /\ time_now = 0 /\ timeout_end = 0 /\ timestamp = 0
    /\ IdleRest
    /\ sessions = [i \in Sessions |->
                     [pc |-> "idle", address |-> DeviceOf(i).address,
                      name |-> DeviceOf(i).name, queue |-> <<>>,
                      status |-> NoStatus, device |-> "up"]]

busRest == <<machineVars, awaitVars, secretVars, scanVars, sendVars,
             guideVars, threadVars, nameVars, commandVars, pgnVars>>

\* restart(wait=True) of session i: the RESTART command is sent to the
\* session's address and the restart ack is awaited.
BusRestart(i) ==
    /\ sessions[i].pc = "idle"
    /\ sessions' = [sessions EXCEPT ![i].pc = "restart_ack",
                                    ![i].device = "commanded"]
    /\ UNCHANGED busRest

\* The device of session i acknowledges the command to the sender and
\* reboots.
DeviceAcks(i) ==
    /\ sessions[i].device = "commanded"
    /\ sessions' = [sessions EXCEPT
          ![i].queue = Append(@, Frame(PGN_ACKNOWLEDGEMENT, DeviceOf(i).address,
                                       <<ACK_OK, CMD_RESTART>> \o Zeros(6))),
          ![i].device = "rebooting"]
    /\ UNCHANGED busRest

\* The device of session i has rebooted and broadcasts its address claim:
\* the receiver of every session puts it.
DeviceClaims(i) ==
    /\ sessions[i].device = "rebooting"
    /\ sessions' = [j \in Sessions |->
          [sessions[j] EXCEPT
             !.queue = Append(@, CanClaim(DeviceOf(i).address, DeviceOf(i).name)),
             !.device = IF j = i THEN "claimed" ELSE @]]
    /\ UNCHANGED busRest

\* J1939TouchEncoder.restart, lines 187-193: one frame of the FIFO in the
\* await_res for the restart ack, or its timeout on the empty FIFO.
BusAwaitAck(i) ==
    /\ sessions[i].pc = "restart_ack"
    /\ LET q == sessions[i].queue
           m == queue_get(q)
       IN  IF m = None
           THEN sessions' = [sessions EXCEPT ![i].pc = "done",
                                             ![i].status = "ERROR"]
           ELSE IF RestartAckMsg(m, sessions[i].address)
           THEN sessions' = [sessions EXCEPT
                   ![i].queue = Tail(q),
                   ![i].pc = IF after_ack(AckCodeOf("CAN", m), TRUE) = "WAIT"
                             THEN "address_claim" ELSE "done",
                   ![i].status = IF after_ack(AckCodeOf("CAN", m), TRUE) = "WAIT"
                                 THEN @ ELSE after_ack(AckCodeOf("CAN", m), TRUE)]
           ELSE sessions' = [sessions EXCEPT ![i].queue = Tail(q)]
    /\ UNCHANGED busRest

\* J1939TouchEncoder.restart, lines 196-202: one frame of the FIFO in the
\* await_res for the address claim, or its timeout on the empty FIFO.
BusAwaitClaim(i) ==
    /\ sessions[i].pc = "address_claim"
    /\ LET q == sessions[i].queue
           m == queue_get(q)
       IN  IF m = None
           THEN sessions' = [sessions EXCEPT ![i].pc = "done",
                                             ![i].status = "RESTART_TIMEOUT"]
           ELSE IF AddressClaimMsg(m)
           THEN sessions' = [sessions EXCEPT
                   ![i].queue = Tail(q),
                   ![i].address = claimed_address(m, @),
                   ![i].name = j1939_name(m),
                   ![i].pc = "done",
                   ![i].status = "SUCCESS"]
           ELSE sessions' = [sessions EXCEPT ![i].queue = Tail(q)]
    /\ UNCHANGED busRest

NextBus ==
    \E i \in Sessions :
       \/ BusRestart(i) \/ DeviceAcks(i) \/ DeviceClaims(i)
       \/ BusAwaitAck(i) \/ BusAwaitClaim(i)

SpecBus == InitBus /\ [][NextBus]_vars

\* C37: a session whose restart(wait=True) has returned SUCCESS holds the
\* address and NAME its own device claimed, and no two sessions that
\* returned SUCCESS hold the same address.
C37_OwnDeviceClaimed ==
    /\ \A i \in Sessions :
          (sessions[i].pc = "done" /\ sessions[i].status = "SUCCESS")
             => /\ sessions[i].address = DeviceOf(i).address
                /\ sessions[i].name = DeviceOf(i).name
    /\ \A i \in Sessions, j \in Sessions :
          (/\ i # j
           /\ sessions[i].pc = "done" /\ sessions[i].status = "SUCCESS"
           /\ sessions[j].pc = "done" /\ sessions[j].status = "SUCCESS")
             => sessions[i].address # sessions[j].address

\* ----------------------------------------------------- update terminates
\* The update and restart machine under fairness: the thread that called
\* update or restart goes on running, and the wall clock it reads with
\* time.time() does not stand still for ever.  Advances is a step that
\* reads a later time or leaves the statement the thread is at.
Advances == Next /\ (clock' > clock \/ pc' # pc)

SpecLive == Init /\ [][Next]_vars /\ WF_vars(Advances)

\* The RESTART commands sent so far.
RECURSIVE Restarts(_)
Restarts(cs) ==
    IF cs = <<>> THEN 0
    ELSE (IF Head(cs) \in {"RESTART", "RESTART_UTILITY_APP"} THEN 1 ELSE 0)
         + Restarts(Tail(cs))

\* C39: every call of update ends, by a return or by an exception; a pass
\* of its loop begins only with a time before the whole-call deadline, and
\* the loop is followed by one restart at most.
C39_UpdateEnds ==
    /\ (op = "update") ~> Done
    /\ []((op = "update" /\ pc = "update") => time_now < update_timeout)
    /\ [](op = "update" => Restarts(sent) <= 1)

C39_Witness ==
    /\ op = "update" /\ Done /\ ret = "TIMEOUT"
    /\ update_state = "UPDATING" /\ obs.late > 0
    /\ time_now > update_timeout

\* --------------------------------- the receiver across the life of a session
\* One HIDInterface through calls of connect, disconnect and restart.  The
\* caller is one thread, the receiver another; obs.orphans counts the Thread
\* objects __init__ has replaced while they were still running, obs.reopened
\* the frames that had been put when __init__ made the new queue.

joined_at_once(thread) == TRUE
\* Thread.join() returns once the thread has ended (line 78).
joined(thread) == thread = "exited"

\* HIDInterface.connect: a new device object is opened (open_path raises
\* OSError when the device is not there, and the reads of the unopened
\* object raise from then on), the state is set to RUNNING and the thread
\* is started, which raises RuntimeError for a thread started before.
connect(thread, state, opened) ==
    IF ~opened
    THEN [endpoints |-> "closed", io_error |-> TRUE, state |-> state,
          thread |-> thread, raised |-> TRUE]
    ELSE [endpoints |-> "open", io_error |-> FALSE, state |-> "RUNNING",
          thread |-> IF thread = "new" THEN "test" ELSE thread,
          raised |-> thread # "new"]

running(thread) == thread \in {"test", "read"}

lifeRest == <<transport, clock, address, name, file_ext, file_size,
              to_utility, authenticate, update_state, update_status,
              file_stream, file_pos, upload_progress, time_now, task_timeout,
              update_timeout, timeout_end, timestamp, hp_devs, cb_seen,
              restart_status, auth_status, enqueued, delivered, expected_res,
              res, io_rets, threadOthers>>

InitReconnect == InitThread /\ transport = "HID"

\* connect() called on the session
CallConnect ==
    /\ pc = "idle" /\ io_ops < MaxOps
    /\ \E opened \in BOOLEAN :
         LET c == connect(recv_thread, recv_thread_state, opened)
         IN  /\ endpoints' = c.endpoints
             /\ io_error' = c.io_error
             /\ recv_thread_state' = c.state
             /\ recv_thread' = c.thread
             /\ hid_connected' = (c.endpoints = "open" /\ running(c.thread))
             /\ ret' = IF c.raised THEN "EXCEPTION" ELSE "None"
    /\ op' = "connect"
    /\ io_ops' = io_ops + 1
    /\ UNCHANGED <<pc, wait, sent, obs, disc_pc, recv_queue, lifeRest>>

\* disconnect() called on the session: the stop request (line 77)
CallDisconnect ==
    /\ pc = "idle" /\ io_ops < MaxOps
    /\ op' = "disconnect"
    /\ pc' = "disconnect"
    /\ ret' = NoStatus
    /\ recv_thread_state' = "STOPPED"
    /\ disc_pc' = "join"
    /\ io_ops' = io_ops + 1
    /\ UNCHANGED <<wait, sent, obs, hid_connected, recv_thread, io_error,
                   endpoints, recv_queue, lifeRest>>

\* HIDTouchEncoder.restart: the command is sent and the ack awaited for 5 s;
\* await_res takes the frames in front of the ack out of the FIFO, all of
\* them when no ack comes.  An ack can only come through a receiver that
\* runs on working endpoints.  After the ack OK the device reboots and its
\* endpoints fail; with wait, _await_restart starts with disconnect().
CallRestartHid ==
    /\ pc = "idle" /\ io_ops < MaxOps
    /\ op' = "restart"
    /\ io_ops' = io_ops + 1
    /\ sent' = Append(sent, "RESTART")
    /\ \E w \in BOOLEAN, ack \in {"none", "ACC_DENIED", "OK"} :
         /\ wait' = w
         /\ ack # "none" => (running(recv_thread) /\ endpoints = "open"
                             /\ ~io_error)
         /\ IF ack = "none"
            THEN /\ recv_queue' = <<>>
                 /\ ret' = "ERROR"
                 /\ UNCHANGED <<pc, disc_pc, recv_thread_state, io_error>>
            ELSE /\ \E k \in 0..Len(recv_queue) :
                      recv_queue' = SubSeq(recv_queue, k + 1, Len(recv_queue))
                 /\ IF ack = "ACC_DENIED"
                    THEN /\ ret' = "ACCESS_DENIED"
                         /\ UNCHANGED <<pc, disc_pc, recv_thread_state,
                                        io_error>>
                    ELSE /\ io_error' = TRUE
                         /\ IF w
                            THEN /\ pc' = "await_restart"
                                 /\ ret' = NoStatus
                                 /\ recv_thread_state' = "STOPPED"
                                 /\ disc_pc' = "join"
                            ELSE /\ ret' = "SUCCESS"
                                 /\ UNCHANGED <<pc, disc_pc,
                                                recv_thread_state>>
    /\ UNCHANGED <<obs, hid_connected, recv_thread, endpoints, lifeRest>>

\* disconnect: _recv_thread.join(), which raises RuntimeError for a thread
\* that was never started
DisconnectJoined ==
    /\ pc \in {"disconnect", "await_restart", "reconnect"}
    /\ disc_pc = "join"
    /\ IF recv_thread = "new"
       THEN /\ disc_pc' = "-"
            /\ pc' = "idle"
            /\ ret' = "EXCEPTION"
       ELSE /\ joined(recv_thread)
            /\ disc_pc' = "close"
            /\ UNCHANGED <<pc, ret>>
    /\ UNCHANGED <<op, wait, sent, obs, hid_connected, recv_thread,
                   recv_thread_state, io_error, endpoints, io_ops, recv_queue,
                   lifeRest>>

\* disconnect: the endpoints are closed and it returns, to the caller of the
\* session, to _await_restart (which waits for the device) or to reconnect
\* (which enumerates)
DisconnectClosed ==
    /\ pc \in {"disconnect", "await_restart", "reconnect"}
    /\ disc_pc = "close"
    /\ endpoints' = "closed"
    /\ hid_connected' = FALSE
    /\ disc_pc' = "-"
    /\ pc' = CASE pc = "disconnect" -> "idle"
               [] pc = "await_restart" -> "hotplug"
               [] pc = "reconnect" -> "enumerate"
    /\ ret' = IF pc = "disconnect" THEN "None" ELSE ret
    /\ UNCHANGED <<op, wait, sent, obs, recv_thread, recv_thread_state,
                   io_error, io_ops, recv_queue, lifeRest>>

\* _await_restart: the wait for the device (hotplug event or poll) ends
\* with the device, and reconnect() starts with disconnect(), or without.
AwaitRestartHotplug ==
    /\ pc = "hotplug"
    /\ \E device \in BOOLEAN :
         IF device
         THEN /\ pc' = "reconnect"
              /\ recv_thread_state' = "STOPPED"
              /\ disc_pc' = "join"
              /\ UNCHANGED ret
         ELSE /\ pc' = "idle"
              /\ ret' = "RESTART_TIMEOUT"
              /\ UNCHANGED <<recv_thread_state, disc_pc>>
    /\ UNCHANGED <<op, wait, sent, obs, hid_connected, recv_thread, io_error,
                   endpoints, io_ops, recv_queue, lifeRest>>

\* reconnect after its disconnect(): the enumeration finds the device or
\* LookupError is raised; __init__ makes a new queue and a new Thread with
\* state STOPPED and calls connect(); _await_restart returns SUCCESS.
Reconnect ==
    /\ pc = "enumerate"
    /\ pc' = "idle"
    /\ \E found \in BOOLEAN, opened \in BOOLEAN :
         IF ~found
         THEN /\ ret' = "EXCEPTION"
              /\ UNCHANGED <<obs, hid_connected, recv_thread,
                             recv_thread_state, io_error, endpoints,
                             recv_queue>>
         ELSE LET c == connect("new", "STOPPED", opened)
              IN  /\ recv_queue' = <<>>
                  /\ obs' = [obs EXCEPT
                        !.orphans = @ + (IF running(recv_thread) THEN 1 ELSE 0),
                        !.reopened = Len(enqueued)]
                  /\ endpoints' = c.endpoints
                  /\ io_error' = c.io_error
                  /\ recv_thread_state' = c.state
                  /\ recv_thread' = c.thread
                  /\ hid_connected' = (c.endpoints = "open" /\ running(c.thread))
                  /\ ret' = IF c.raised THEN "EXCEPTION" ELSE "SUCCESS"
    /\ UNCHANGED <<op, wait, sent, disc_pc, io_ops, lifeRest>>

NextReconnect ==
    \/ ReceiverTest
    \/ ReceiverRead
    \/ ReceiverFails
    \/ CallConnect
    \/ CallDisconnect
    \/ CallRestartHid
    \/ DisconnectJoined
    \/ DisconnectClosed
    \/ AwaitRestartHotplug
    \/ Reconnect

SpecReconnect == InitReconnect /\ [][NextReconnect]_vars

\* The receivers that run: the thread of the session and the replaced ones.
RunningReceivers == (IF running(recv_thread) THEN 1 ELSE 0) + obs.orphans

\* C40: across connect, disconnect and restart of a HID session at most one
\* receiver runs at any time; when restart(wait=True) has returned SUCCESS,
\* exactly one receiver runs, on the re-opened endpoints, and every frame in
\* the FIFO was put after the new queue was made.
C40_OneReceiver ==
    /\ RunningReceivers <= 1
    /\ (op = "restart" /\ wait /\ pc = "idle" /\ ret = "SUCCESS")
          => /\ RunningReceivers = 1
             /\ running(recv_thread)
             /\ recv_thread_state = "RUNNING"
             /\ endpoints = "open" /\ ~io_error
             /\ \A i \in 1..Len(recv_queue) : recv_queue[i].n > obs.reopened

C40_Witness ==
    /\ op = "restart" /\ wait /\ pc = "idle" /\ ret = "SUCCESS"
    /\ running(recv_thread) /\ obs.orphans = 0
    /\ endpoints = "open"
    /\ obs.reopened > 0
====
